---------------------------- MODULE Spec2Model ----------------------------
(***************************************************************************)
(* Brand traffic analyzer: the classification-and-aggregation pipeline     *)
(* (utils.js: inferContentType, detectLanguageOrPath, processCsvResults,   *)
(* analyzeDataQuality, sanitizeCSVCell, validateCSVContent), the upload    *)
(* path                                                                    *)
(* (components.jsx: FileUploadComponent.handleFileChange) and the          *)
(* analysis / export handlers of BrandTrafficAnalyzer.jsx.                 *)
(*                                                                         *)
(* JavaScript strings are sequences of one-character strings.  A string    *)
(* value carries a run-length tail: [t |-> "str", v |-> s, pad |-> n] is   *)
(* the text s followed by n copies of PadChar, so that a query longer than *)
(* 100 000 characters is a value the model can hold.  JavaScript numbers   *)
(* are exact rationals [n, d] in lowest terms (floating-point rounding is  *)
(* not modelled).                                                          *)
(***************************************************************************)
EXTENDS Integers, Sequences, FiniteSets, TLC

VARIABLES
    brandTerms,            \* React state: the comma-separated brand terms
    useCustomRegex,        \* React state
    customRegex,           \* React state: the custom pattern text
    caseSensitive,         \* React state
    detectLanguageCodes,   \* React state
    csvData,               \* React state: the uploaded, key-normalised rows
    results,               \* React state: the stored aggregated result, or NoResult
    error,                 \* React state: the last error message kind, or "none"
    pc,                    \* where the running analysis is
    normalizedData,        \* processCsvResults: the rows being aggregated
    index,                 \* processCsvResults: forEach index (0-based) of the next row
    acc,                   \* processCsvResults: the accumulator
    rowLog,                \* what happened to each row handed to the forEach callback
    inferContentTypeCache, \* utils.js module state: Map url -> label
    exported,              \* the data rows of the last CSV written by an export handler
    selectedFile,          \* the parsed file the user selects: header and rows of cells
    other,                 \* a further invocation of processCsvResults in flight
    arg,                   \* the argument of the last call of a utils.js function
    ret                    \* what that call returned, or NoCall

vars == <<brandTerms, useCustomRegex, customRegex, caseSensitive, detectLanguageCodes,
          csvData, results, error, pc, normalizedData, index, acc, rowLog,
          inferContentTypeCache, exported, selectedFile, other, arg, ret>>

configVars == <<brandTerms, useCustomRegex, customRegex, caseSensitive, detectLanguageCodes>>

-----------------------------------------------------------------------------
(* Characters and strings *)

UpperChars == <<"A","B","C","D","E","F","G","H","I","J","K","L","M",
                "N","O","P","Q","R","S","T","U","V","W","X","Y","Z">>
LowerChars == <<"a","b","c","d","e","f","g","h","i","j","k","l","m",
                "n","o","p","q","r","s","t","u","v","w","x","y","z">>

\* String.prototype.toLowerCase on one character
LowerChar(c) ==
    IF \E i \in 1..26 : UpperChars[i] = c
    THEN LowerChars[CHOOSE i \in 1..26 : UpperChars[i] = c]
    ELSE c

ToLowerCase(s) == [i \in 1..Len(s) |-> LowerChar(s[i])]

\* String.prototype.startsWith
StartsWith(s, p) == Len(p) <= Len(s) /\ SubSeq(s, 1, Len(p)) = p

\* String.prototype.includes: the empty string is included in every string
Includes(s, p) == \E i \in 0..(Len(s) - Len(p)) : SubSeq(s, i + 1, i + Len(p)) = p

RECURSIVE TrimStart(_)
TrimStart(s) == IF s # <<>> /\ Head(s) = " " THEN TrimStart(Tail(s)) ELSE s

RECURSIVE TrimEnd(_)
TrimEnd(s) ==
    IF s # <<>> /\ s[Len(s)] = " " THEN TrimEnd(SubSeq(s, 1, Len(s) - 1)) ELSE s

\* String.prototype.trim
Trim(s) == TrimEnd(TrimStart(s))

\* String.prototype.split on a one-character separator: "" splits to [""]
RECURSIVE SplitFrom(_, _, _)
SplitFrom(s, sep, cur) ==
    IF s = <<>> THEN <<cur>>
    ELSE IF Head(s) = sep THEN <<cur>> \o SplitFrom(Tail(s), sep, <<>>)
    ELSE SplitFrom(Tail(s), sep, Append(cur, Head(s)))

Split(s, sep) == SplitFrom(s, sep, <<>>)

\* Array.prototype.join with a one-character separator
RECURSIVE Join(_, _)
Join(parts, sep) ==
    IF parts = <<>> THEN <<>>
    ELSE IF Len(parts) = 1 THEN parts[1]
    ELSE parts[1] \o <<sep>> \o Join(Tail(parts), sep)

\* Array.prototype.filter
RECURSIVE SelectNonEmpty(_)
SelectNonEmpty(parts) ==
    IF parts = <<>> THEN <<>>
    ELSE IF Head(parts) # <<>> THEN <<Head(parts)>> \o SelectNonEmpty(Tail(parts))
    ELSE SelectNonEmpty(Tail(parts))

\* s with every occurrence of character c removed: replace(/c/g, '')
RECURSIVE RemoveAll(_, _)
RemoveAll(s, c) ==
    IF s = <<>> THEN <<>>
    ELSE IF Head(s) = c THEN RemoveAll(Tail(s), c)
    ELSE <<Head(s)>> \o RemoveAll(Tail(s), c)

\* s with the first occurrence of character c removed: replace('c', '')
RECURSIVE RemoveFirst(_, _)
RemoveFirst(s, c) ==
    IF s = <<>> THEN <<>>
    ELSE IF Head(s) = c THEN Tail(s)
    ELSE <<Head(s)>> \o RemoveFirst(Tail(s), c)

-----------------------------------------------------------------------------
(* Numbers: exact rationals in lowest terms, denominator positive *)

Abs(x) == IF x < 0 THEN -x ELSE x

RECURSIVE Gcd(_, _)
Gcd(a, b) == IF b = 0 THEN a ELSE Gcd(b, a % b)

Rat(n, d) ==
    LET s == IF d < 0 THEN -1 ELSE 1
        g == Gcd(Abs(n), Abs(d))
    IN  [n |-> (s * n) \div g, d |-> (s * d) \div g]

Zero == [n |-> 0, d |-> 1]
Int2Rat(i) == [n |-> i, d |-> 1]
RatAdd(a, b) == Rat(a.n * b.d + b.n * a.d, a.d * b.d)
RatMul(a, b) == Rat(a.n * b.n, a.d * b.d)
\* a / b for b /= 0
RatDiv(a, b) == Rat(a.n * b.d, a.d * b.n)

-----------------------------------------------------------------------------
(* JavaScript values of a row's cells *)

\* the character of a string value's run-length tail
PadChar == "a"

Str(s) == [t |-> "str", v |-> s, pad |-> 0]
LongStr(s, n) == [t |-> "str", v |-> s, pad |-> n]
Num(r) == [t |-> "num", v |-> r, pad |-> 0]
Null == [t |-> "null", v |-> <<>>, pad |-> 0]

IsStr(x) == x.t = "str"

\* String.prototype.length
StrLen(x) == Len(x.v) + x.pad

Min(a, b) == IF a <= b THEN a ELSE b

\* the first Len(x.v) + Min(x.pad, k) characters of string value x
Expand(x, k) == x.v \o [i \in 1..Min(x.pad, k) |-> PadChar]

\* the whole text of a string value
Text(x) == Expand(x, x.pad)

\* character m (1-based) of string value x
CharAt(x, m) == IF m <= Len(x.v) THEN x.v[m] ELSE PadChar

\* String.prototype.substring(i, j) for 0 <= i <= j <= length
Substring(x, i, j) == [k \in 1..(j - i) |-> CharAt(x, i + k)]

\* ToBoolean: "", 0, null and undefined are falsy
Truthy(x) ==
    CASE x.t = "str" -> StrLen(x) > 0
      [] x.t = "num" -> x.v.n # 0
      [] x.t = "null" -> FALSE

\* the === of two cell values
StrictEq(x, y) == x.t = y.t /\ x.pad = y.pad /\ x.v = y.v

DigitChars == <<"0","1","2","3","4","5","6","7","8","9">>
IsDigit(c) == \E i \in 1..10 : DigitChars[i] = c
DigitVal(c) == (CHOOSE i \in 1..10 : DigitChars[i] = c) - 1

\* the decimal digits of a natural number
RECURSIVE NatToString(_)
NatToString(k) ==
    IF k < 10 THEN <<DigitChars[k + 1]>>
    ELSE NatToString(k \div 10) \o <<DigitChars[(k % 10) + 1]>>

\* the digits after the decimal point of rem/d, for a terminating expansion
RECURSIVE FracDigits(_, _)
FracDigits(rem, d) ==
    IF rem = 0 THEN <<>>
    ELSE <<DigitChars[((rem * 10) \div d) + 1]>> \o FracDigits((rem * 10) % d, d)

\* Number.prototype.toString of a number with a terminating decimal expansion
NumToString(r) ==
    LET a == Abs(r.n)
        whole == NatToString(a \div r.d)
        frac == FracDigits(a % r.d, r.d)
    IN  (IF r.n < 0 THEN <<"-">> ELSE <<>>) \o whole
          \o (IF frac = <<>> THEN <<>> ELSE <<".">> \o frac)

\* String(x): the text of a cell value
ToStringValue(x) ==
    CASE x.t = "str" -> Text(x)
      [] x.t = "num" -> NumToString(x.v)
      [] x.t = "null" -> <<"n","u","l","l">>

RECURSIVE DigitsToNat(_, _)
DigitsToNat(s, sofar) ==
    IF s = <<>> THEN sofar ELSE DigitsToNat(Tail(s), sofar * 10 + DigitVal(Head(s)))

RECURSIVE Pow10(_)
Pow10(k) == IF k = 0 THEN 1 ELSE 10 * Pow10(k - 1)

AllDigits(s) == \A i \in 1..Len(s) : IsDigit(s[i])

NaN == [n |-> 0, d |-> 0]
IsNaN(r) == r.d = 0

\* Number(string): whitespace trimmed, "" is 0, an optional sign, digits and at
\* most one decimal point; anything else is NaN
ParseDecimal(ip, fp) ==
    IF ~AllDigits(ip) \/ ~AllDigits(fp) \/ (ip = <<>> /\ fp = <<>>) THEN NaN
    ELSE Rat(DigitsToNat(ip, 0) * Pow10(Len(fp)) + DigitsToNat(fp, 0), Pow10(Len(fp)))

ParseParts(parts) ==
    IF Len(parts) > 2 THEN NaN
    ELSE ParseDecimal(parts[1], IF Len(parts) = 2 THEN parts[2] ELSE <<>>)

ApplySign(neg, r) == IF neg /\ ~IsNaN(r) THEN [n |-> -r.n, d |-> r.d] ELSE r

ParseSigned(s) ==
    IF s = <<>> THEN Zero
    ELSE ApplySign(Head(s) = "-",
                   ParseParts(Split(IF Head(s) \in {"-", "+"} THEN Tail(s) ELSE s, ".")))

StringToNumber(s0) == ParseSigned(Trim(s0))

\* Number(x)
ToNumber(x) ==
    CASE x.t = "str" -> StringToNumber(Text(x))
      [] x.t = "num" -> x.v
      [] x.t = "null" -> Zero

\* n || 0 on a number: NaN and 0 give 0
OrZero(r) == IF IsNaN(r) THEN Zero ELSE r

\* x.includes(p) on a string value: an occurrence of p reaches at most Len(p)
\* characters into the run-length tail
ValueIncludes(x, p) == Includes(Expand(x, Len(p)), p)

-----------------------------------------------------------------------------
(* ContentTypeClassifier: inferContentType, utils.js lines 3-21 *)

contentTypes ==
    << [patterns |-> << <<"/","b","l","o","g">>, <<"/","a","r","t","i","c","l","e">>,
                        <<"/","n","e","w","s">> >>, type |-> "Blog"],
       [patterns |-> << <<"/","p","r","o","d","u","c","t">>,
                        <<"/","p","r","i","c","i","n","g">>, <<"/","s","h","o","p">> >>,
        type |-> "Product"],
       [patterns |-> << <<"/","s","u","p","p","o","r","t">>, <<"/","h","e","l","p">>,
                        <<"/","f","a","q">> >>, type |-> "Support"],
       [patterns |-> << <<"/","a","b","o","u","t">>, <<"/","c","o","m","p","a","n","y">>,
                        <<"/","t","e","a","m">> >>, type |-> "About"],
       [patterns |-> << <<"/","l","o","g","i","n">>, <<"/","s","i","g","n","i","n">>,
                        <<"/","a","c","c","o","u","n","t">> >>, type |-> "Auth"],
       [patterns |-> << <<"/">>, <<>> >>, type |-> "Homepage"] >>

\* ct.patterns.some(pattern => normalizedUrl.includes(pattern))
RuleMatches(ct, normalizedUrl) ==
    \E k \in 1..Len(ct.patterns) : Includes(normalizedUrl, ct.patterns[k])

\* contentTypes.find(...)?.type || 'Other' on the text of a non-empty URL
FirstRule(hits) ==
    IF hits = {} THEN "Other"
    ELSE contentTypes[CHOOSE k \in hits : \A j \in hits : k <= j].type

MatchedType(url) ==
    FirstRule({k \in 1..Len(contentTypes) : RuleMatches(contentTypes[k], ToLowerCase(url))})

\* inferContentTypeCache.set(url, matchedType)
CacheSet(cache, url, matchedType) ==
    [kind |-> "ok", label |-> matchedType,
     cache |-> [u \in DOMAIN cache \cup {url} |-> IF u = url THEN matchedType ELSE cache[u]]]

\* inferContentType(url) with the module-level cache: the label returned and the
\* cache afterwards; a truthy url that is not a string has no toLowerCase, and
\* the call throws a TypeError
\* a variant whose lookup takes any cached URL the given one starts with
InferContentTypeByPrefix(url, cache) ==
    IF ~Truthy(url) THEN [kind |-> "ok", label |-> "Unknown", cache |-> cache]
    ELSE IF ~IsStr(url) THEN [kind |-> "throw", label |-> "none", cache |-> cache]
    ELSE IF \E u \in DOMAIN cache : StartsWith(Text(url), u)
         THEN [kind |-> "ok",
               label |-> cache[CHOOSE u \in DOMAIN cache : StartsWith(Text(url), u)],
               cache |-> cache]
    ELSE CacheSet(cache, Text(url), MatchedType(Text(url)))

InferContentType(url, cache) ==
    IF ~Truthy(url) THEN [kind |-> "ok", label |-> "Unknown", cache |-> cache]
    ELSE IF ~IsStr(url) THEN [kind |-> "throw", label |-> "none", cache |-> cache]
    ELSE IF Text(url) \in DOMAIN cache
         THEN [kind |-> "ok", label |-> cache[Text(url)], cache |-> cache]
    ELSE CacheSet(cache, Text(url), MatchedType(Text(url)))

-----------------------------------------------------------------------------
(* PathLanguageSegmenter: detectLanguageOrPath, utils.js lines 109-120 *)

languageCodes ==
    { <<"e","n">>, <<"e","s">>, <<"e","s","-","e","s">>, <<"d","e">>, <<"f","r">>,
      <<"p","t">>, <<"r","u">>, <<"i","t">>, <<"p","l">>, <<"z","h">>,
      <<"z","h","-","h","a","n","t">>, <<"z","h","-","h","a","n","s">>, <<"j","a">>,
      <<"u","k">>, <<"i","d">>, <<"l","v">>, <<"a","r">>, <<"b","g">>, <<"c","a">>,
      <<"c","s">>, <<"d","a">>, <<"e","l">>, <<"f","i">>, <<"h","e">>, <<"h","i">>,
      <<"h","r">>, <<"h","u">>, <<"k","o">>, <<"l","t">>, <<"n","l">>, <<"n","o">>,
      <<"r","o">>, <<"s","k">>, <<"s","l">>, <<"s","r">>, <<"s","v">>, <<"t","h">>,
      <<"t","r">>, <<"v","i">> }

unknownLang == <<"u","n","k","n","o","w","n">>
homepagePath == <<"/","h","o","m","e","p","a","g","e">>
invalidPath == <<"/","i","n","v","a","l","i","d">>

\* a variant of the forEach without the `lang === 'unknown'` test of line 114:
\* every segment that is a language code is consumed, the last one becoming lang
RECURSIVE SegmentLoopEveryCode(_, _, _, _)
SegmentLoopEveryCode(segments, codes, lang, pathSegments) ==
    IF segments = <<>> THEN [lang |-> lang, pathSegments |-> pathSegments]
    ELSE IF ToLowerCase(Head(segments)) \in codes
         THEN SegmentLoopEveryCode(Tail(segments), codes, Head(segments), pathSegments)
    ELSE SegmentLoopEveryCode(Tail(segments), codes, lang,
                              Append(pathSegments, Head(segments)))

\* the segments.forEach of detectLanguageOrPath, from the state (lang, pathSegments)
RECURSIVE SegmentLoop(_, _, _, _)
SegmentLoop(segments, codes, lang, pathSegments) ==
    IF segments = <<>> THEN [lang |-> lang, pathSegments |-> pathSegments]
    ELSE LET seg == Head(segments)
         IN  IF ToLowerCase(seg) \in codes /\ lang = unknownLang
             THEN SegmentLoop(Tail(segments), codes, seg, pathSegments)
             ELSE SegmentLoop(Tail(segments), codes, lang, Append(pathSegments, seg))

SegmentResult(lang, pathSegments) ==
    [lang |-> lang,
     path |-> IF Len(pathSegments) > 0 THEN <<"/">> \o Join(pathSegments, "/")
              ELSE homepagePath,
     primaryPath |-> IF Len(pathSegments) > 0 THEN <<"/">> \o pathSegments[1]
                     ELSE homepagePath]

\* the state (lang, pathSegments) after the forEach
SegmentState(pathname, codes) ==
    SegmentLoop(SelectNonEmpty(Split(pathname, "/")), codes, unknownLang, <<>>)

detectLanguageOrPath(pathname, codes) ==
    SegmentResult(SegmentState(pathname, codes).lang,
                  SegmentState(pathname, codes).pathSegments)

-----------------------------------------------------------------------------
(* ExportSanitizer: sanitizeCSVCell and validateCSVContent, utils.js lines 302-335 *)

\* a variant that takes the apostrophe for a formula character as well
FormulaCharsAndApostrophe == {"=", "+", "-", "@", "'"}

\* the characters tested at utils.js lines 305-306
FormulaChars == {"=", "+", "-", "@"}

\* a cell value whose text starts with '=', '+', '-' or '@'
StartsWithFormulaChar(content) ==
    StrLen(content) > 0 /\ CharAt(content, 1) \in FormulaChars

sanitizeCSVCell(content) ==
    IF ~IsStr(content) THEN content
    ELSE IF StartsWithFormulaChar(content)
         THEN [content EXCEPT !.v = <<"'">> \o content.v]
    ELSE content

suspiciousPatterns ==
    << <<"<","s","c","r","i","p","t">>, <<"<","i","f","r","a","m","e">>,
       <<"j","a","v","a","s","c","r","i","p","t",":">>, <<"d","a","t","a",":">>,
       <<"v","b","s","c","r","i","p","t",":">> >>

Fields == {"query", "page", "clicks", "impressions", "ctr", "position"}

\* pattern.test(String(row[key] || '')) for one of the case-insensitive patterns
CellIsSuspicious(cell) ==
    /\ Truthy(cell)
    /\ LET value == IF IsStr(cell) THEN ToLowerCase(Expand(cell, 11))
                    ELSE ToStringValue(cell)
       IN  \E k \in 1..Len(suspiciousPatterns) : Includes(value, suspiciousPatterns[k])

\* validateCSVContent(data).valid
validateCSVContent(data) ==
    ~ \E i \in 1..Len(data) : \E key \in Fields : CellIsSuspicious(data[i][key])

-----------------------------------------------------------------------------
(* The regular-expression engine behind new RegExp(...) and RegExp.test, *)
(* for the patterns the model's configurations use: a literal pattern     *)
(* (no metacharacter) and the nested-quantifier pattern (c+)+$.           *)

MetaChars == {"(", ")", "+", "$", "*", "?", "[", "]", "{", "}", "|", "^", ".", "\\"}

\* new RegExp(p) throws a SyntaxError on an unbalanced group or on a quantifier
\* with nothing to repeat
RECURSIVE GroupsBalanced(_, _)
GroupsBalanced(p, depth) ==
    IF p = <<>> THEN depth = 0
    ELSE IF Head(p) = "(" THEN GroupsBalanced(Tail(p), depth + 1)
    ELSE IF Head(p) = ")" THEN depth > 0 /\ GroupsBalanced(Tail(p), depth - 1)
    ELSE GroupsBalanced(Tail(p), depth)

RegexCompiles(p) ==
    /\ GroupsBalanced(p, 0)
    /\ \A i \in 1..Len(p) :
          p[i] = "+" => (i > 1 /\ p[i - 1] \notin {"(", "+", "$"})

IsLiteralPattern(p) == \A i \in 1..Len(p) : p[i] \notin MetaChars

IsNestedPlus(p) ==
    /\ Len(p) = 6
    /\ p[1] = "(" /\ p[2] \notin MetaChars /\ p[3] = "+"
    /\ p[4] = ")" /\ p[5] = "+" /\ p[6] = "$"

Fold(ci, s) == IF ci THEN ToLowerCase(s) ELSE s

\* the length of a run of the repeated character, followed by a character that
\* ends the run, from which the backtracking matcher of (c+)+$ does not return:
\* it tries every way to split the run, 2^run of them
BacktrackRun == 30

\* (c+)+$ on text t whose last character is last
NestedPlusTest(t, c, last) ==
    IF \E k \in (BacktrackRun + 1)..Len(t) :
          t[k] # c /\ \A m \in (k - BacktrackRun)..(k - 1) : t[m] = c
    THEN "hang"
    ELSE IF last = c THEN "true" ELSE "false"

\* the last character of a string value, "" for the empty string
LastChar(x) ==
    IF x.pad > 0 THEN PadChar ELSE IF x.v = <<>> THEN "" ELSE x.v[Len(x.v)]

\* RegExp.prototype.test(x) for a compiled pattern p (ci: the 'i' flag):
\* "true", "false", or "hang" when the match does not return
RegexTest(p, ci, x) ==
    CASE IsLiteralPattern(p) ->
            IF Includes(Fold(ci, Expand(x, Len(p))), Fold(ci, p)) THEN "true" ELSE "false"
      [] IsNestedPlus(p) ->
            NestedPlusTest(Fold(ci, Expand(x, 1)), Fold(ci, <<p[2]>>)[1],
                           Fold(ci, <<LastChar(x)>>)[1])

-----------------------------------------------------------------------------
(* BrandMatcher: isBranded and safeRegexTest, utils.js lines 133-172 *)

maxSteps == 1000
chunkSize == 100

\* brandTerms.toLowerCase().split(',').map((term) => term.trim())
TrimAll(parts) == [k \in 1..Len(parts) |-> Trim(parts[k])]
Terms(terms) == TrimAll(Split(ToLowerCase(terms), ","))

\* chunk k (0-based) of the for loop of safeRegexTest:
\* str.substring(i, Math.min(i + chunkSize, str.length)) with i = k * chunkSize
Chunk(str, k) ==
    Str(Substring(str, k * chunkSize, Min(k * chunkSize + chunkSize, StrLen(str))))

\* the for loop of safeRegexTest (i = 0, chunkSize, 2*chunkSize, ... while
\* i < str.length).  Iteration k (0-based) tests chunk k, sets steps to k + 1 and
\* throws when k + 1 > maxSteps, so the iterations reached are those with
\* k <= maxSteps.  "done" when every chunk was tested, "budget" when the loop
\* threw, "hang" when a reached chunk's test does not return
LoopOver(p, ci, str, reached) ==
    IF \E chunk \in {Chunk(str, k) : k \in reached} : RegexTest(p, ci, chunk) = "hang"
    THEN "hang"
    ELSE IF \E k \in reached : k + 1 > maxSteps THEN "budget"
    ELSE "done"

ChunkLoop(p, ci, str) ==
    LoopOver(p, ci, str,
             {k \in 0..(((StrLen(str) + chunkSize - 1) \div chunkSize) - 1) : k <= maxSteps})

\* the final currentRegex.test(str) of safeRegexTest, line 161
FinalTest(final) ==
    IF final = "hang" THEN [kind |-> "hang", value |-> FALSE, fullTest |-> TRUE]
    ELSE [kind |-> "ok", value |-> (final = "true"), fullTest |-> TRUE]

AfterLoop(p, ci, str, loop) ==
    IF loop = "hang" THEN [kind |-> "hang", value |-> FALSE, fullTest |-> FALSE]
    ELSE IF loop = "budget" THEN [kind |-> "throw", value |-> FALSE, fullTest |-> FALSE]
    ELSE FinalTest(RegexTest(p, ci, str))

\* safeRegexTest(regex, query): a number has no length, so its loop body never
\* runs, and the final test coerces it to its decimal text
safeRegexTest(p, ci, query) ==
    IF IsStr(query) THEN AfterLoop(p, ci, query, ChunkLoop(p, ci, query))
    ELSE AfterLoop(p, ci, Str(ToStringValue(query)), "done")

\* terms.some((term) => term && queryLower.includes(term)): a number has no
\* includes, so the first non-empty term throws a TypeError
TermMatch(terms, queryLower) ==
    IF IsStr(queryLower)
    THEN [kind |-> "ok",
          value |-> \E k \in 1..Len(terms) :
                       terms[k] # <<>> /\ ValueIncludes(queryLower, terms[k])]
    ELSE IF \E k \in 1..Len(terms) : terms[k] # <<>> THEN [kind |-> "throw", value |-> FALSE]
    ELSE [kind |-> "ok", value |-> FALSE]

\* a fail-open variant of the catch block of lines 165-168: `return true`
PatternResultFailOpen(r) ==
    IF r.kind = "throw"
    THEN [kind |-> "ok", value |-> TRUE, fault |-> "budget", fullTest |-> r.fullTest]
    ELSE [kind |-> r.kind, value |-> r.value, fault |-> "none", fullTest |-> r.fullTest]

\* the try / catch of lines 138-168 around a compiled pattern's evaluation
PatternResult(r) ==
    IF r.kind = "throw"
    THEN [kind |-> "ok", value |-> FALSE, fault |-> "budget", fullTest |-> r.fullTest]
    ELSE [kind |-> r.kind, value |-> r.value, fault |-> "none", fullTest |-> r.fullTest]

TermResult(m) == [kind |-> m.kind, value |-> m.value, fault |-> "none", fullTest |-> FALSE]

\* isBranded(query) under configuration cfg.  kind: "ok" (value returned),
\* "throw" (an exception escapes isBranded) or "hang" (it does not return);
\* fault: "compile" or "budget" when the catch block ran, else "none";
\* fullTest: whether the final full-string test was started
isBranded(query, cfg) ==
    IF ~Truthy(query)
    THEN [kind |-> "ok", value |-> FALSE, fault |-> "none", fullTest |-> FALSE]
    ELSE IF ~cfg.caseSensitive /\ ~IsStr(query)
    THEN [kind |-> "throw", value |-> FALSE, fault |-> "none", fullTest |-> FALSE]
    ELSE IF cfg.useCustomRegex /\ cfg.customRegex # <<>>
    THEN IF ~RegexCompiles(cfg.customRegex)
         THEN [kind |-> "ok", value |-> FALSE, fault |-> "compile", fullTest |-> FALSE]
         ELSE PatternResult(safeRegexTest(cfg.customRegex, ~cfg.caseSensitive, query))
    ELSE TermResult(TermMatch(Terms(cfg.brandTerms),
                              IF cfg.caseSensitive THEN query
                              ELSE [query EXCEPT !.v = ToLowerCase(@)]))

-----------------------------------------------------------------------------
(* new URL(...) as used on a row's page, utils.js line 219.  The model covers *)
(* pages of the form [http://|https://]host[/path] over an alphabet without   *)
(* '?', '#' and ':' outside the scheme: a special scheme skips any further    *)
(* slashes before the host, the host ends at the next '/', and an empty host  *)
(* or a host holding a space is a TypeError.                                  *)

httpScheme == <<"h","t","t","p",":","/","/">>
httpsScheme == <<"h","t","t","p","s",":","/","/">>

RECURSIVE SkipSlashes(_)
SkipSlashes(s) == IF s # <<>> /\ Head(s) = "/" THEN SkipSlashes(Tail(s)) ELSE s

RECURSIVE TakeHost(_)
TakeHost(s) == IF s = <<>> \/ Head(s) = "/" THEN <<>> ELSE <<Head(s)>> \o TakeHost(Tail(s))

\* new URL(s): [ok |-> FALSE] when the constructor throws, else the pathname
UrlOf(host, path) ==
    IF host = <<>> \/ \E i \in 1..Len(host) : host[i] = " "
    THEN [ok |-> FALSE, pathname |-> <<>>]
    ELSE [ok |-> TRUE, pathname |-> IF path = <<>> THEN <<"/">> ELSE path]

AfterScheme(rest) == UrlOf(TakeHost(rest), SubSeq(rest, Len(TakeHost(rest)) + 1, Len(rest)))

ParseUrl(s) ==
    IF StartsWith(s, httpsScheme) THEN AfterScheme(SkipSlashes(SubSeq(s, 9, Len(s))))
    ELSE IF StartsWith(s, httpScheme) THEN AfterScheme(SkipSlashes(SubSeq(s, 8, Len(s))))
    ELSE [ok |-> FALSE, pathname |-> <<>>]

\* a variant of the catch block without the assignment of line 226: path and
\* primaryPath keep their initial '/homepage'
InvalidPageKeepingHomepage ==
    [path |-> homepagePath, primaryPath |-> homepagePath, lang |-> unknownLang]

InvalidPage == [path |-> invalidPath, primaryPath |-> invalidPath, lang |-> unknownLang]

Detected(d, detect) ==
    [path |-> d.path, primaryPath |-> d.primaryPath,
     lang |-> IF detect THEN d.lang ELSE unknownLang]

Resolved(url, detect) ==
    IF ~url.ok THEN InvalidPage
    ELSE Detected(detectLanguageOrPath(url.pathname, languageCodes), detect)

\* the try block of utils.js lines 218-227: path, primaryPath and lang of a page;
\* a page that is not a string has no startsWith, and the TypeError is caught
ResolvePage(page, detect) ==
    IF ~IsStr(page) THEN InvalidPage
    ELSE Resolved(ParseUrl(IF StartsWith(Text(page), <<"h","t","t","p">>) THEN Text(page)
                           ELSE httpsScheme \o Text(page)), detect)

-----------------------------------------------------------------------------
(* AggregationEngine: processCsvResults, utils.js lines 122-279 *)

\* the cap on a bucket's samples (line 211) and on a path's URL examples (line 234)
MaxSamples == 10
MaxUrlExamples == 10

\* the accumulator of utils.js lines 179-190
InitAcc(data) ==
    [branded |-> [samples |-> <<>>,
                  metrics |-> [clicks |-> Zero, impressions |-> Zero, ctr |-> Zero,
                               avgPosition |-> Zero]],
     nonBranded |-> [samples |-> <<>>,
                     metrics |-> [clicks |-> Zero, impressions |-> Zero, ctr |-> Zero,
                                  avgPosition |-> Zero]],
     summary |-> [totalRows |-> 0, brandedRows |-> 0, nonBrandedRows |-> 0,
                  brandedPercentage |-> Zero, nonBrandedPercentage |-> Zero],
     pathData |-> <<>>,
     languageData |-> <<>>,
     pathUrlExamples |-> <<>>,
     pathUrlCounts |-> <<>>,
     borderline |-> [samples |-> <<>>],
     duplicates |-> <<>>,
     sampleRows |-> SubSeq(data, 1, Min(Len(data), 50))]

\* an object used as a map is a sequence of entries in insertion order
KeyIndex(entries, key) ==
    IF \E k \in 1..Len(entries) : entries[k].name = key
    THEN CHOOSE k \in 1..Len(entries) : entries[k].name = key
    ELSE 0

\* the coerced cells of utils.js lines 203-206
CoerceClicks(row) == OrZero(ToNumber(row.clicks))
CoerceImpressions(row) ==
    OrZero(StringToNumber(RemoveAll(
        IF Truthy(row.impressions) THEN ToStringValue(row.impressions) ELSE <<"0">>, ",")))
DivideBy100(n) == IF IsNaN(n) THEN Zero ELSE RatDiv(n, Int2Rat(100))
CoerceCtr(row) ==
    DivideBy100(StringToNumber(RemoveFirst(
        IF Truthy(row.ctr) THEN ToStringValue(row.ctr) ELSE <<"0">>, "%")))
CoercePosition(row) == OrZero(ToNumber(row.position))

\* the running mean of utils.js line 210
NextAvgPosition(avgPosition, totalRows, position) ==
    RatDiv(RatAdd(RatMul(avgPosition, Int2Rat(totalRows - 1)), position),
           Int2Rat(totalRows))

\* lang.charAt(0).toUpperCase() + lang.slice(1)
UpperChar(c) ==
    IF \E i \in 1..26 : LowerChars[i] = c
    THEN UpperChars[CHOOSE i \in 1..26 : LowerChars[i] = c]
    ELSE c
Capitalize(s) == IF s = <<>> THEN s ELSE <<UpperChar(s[1])>> \o Tail(s)

\* an entry with its total and its category's count incremented
Counted(old, category) ==
    [old EXCEPT !.total = @ + 1, ![category] = @ + 1, !.sortableTotal = old.total + 1]

PutEntry(entries, k, new) ==
    IF k = 0 THEN Append(entries, new) ELSE [entries EXCEPT ![k] = new]

\* utils.js lines 229-232: the entry of primaryPath created if absent, then counted
PathEntry(pathData, primaryPath, k) ==
    IF k = 0
    THEN [name |-> primaryPath, total |-> 0, branded |-> 0, nonBranded |-> 0,
          sortableTotal |-> 0]
    ELSE pathData[k]

UpdatePathDataAt(pathData, primaryPath, category, k) ==
    PutEntry(pathData, k, Counted(PathEntry(pathData, primaryPath, k), category))

UpdatePathData(pathData, primaryPath, category) ==
    UpdatePathDataAt(pathData, primaryPath, category, KeyIndex(pathData, primaryPath))

\* utils.js line 233
UpdatePathUrlCountsAt(counts, primaryPath, k) ==
    IF k = 0 THEN Append(counts, [name |-> primaryPath, count |-> 1])
    ELSE [counts EXCEPT ![k].count = @ + 1]

UpdatePathUrlCounts(counts, primaryPath) ==
    UpdatePathUrlCountsAt(counts, primaryPath, KeyIndex(counts, primaryPath))

\* utils.js line 234: (examples || []).concat([row.page]).slice(0, 10)
\* a variant that keeps the latest ten pages: slice(-10)
UpdatePathUrlExamplesAtLatest(examples, primaryPath, page, k) ==
    LET all == Append(IF k = 0 THEN <<>> ELSE examples[k].urls, page)
    IN  PutEntry(examples, k,
                 [name |-> primaryPath,
                  urls |-> SubSeq(all, Len(all) - Min(Len(all), MaxUrlExamples) + 1, Len(all))])

UpdatePathUrlExamplesAt(examples, primaryPath, page, k) ==
    LET all == Append(IF k = 0 THEN <<>> ELSE examples[k].urls, page)
    IN  PutEntry(examples, k,
                 [name |-> primaryPath,
                  urls |-> SubSeq(all, 1, Min(Len(all), MaxUrlExamples))])

UpdatePathUrlExamples(examples, primaryPath, page) ==
    UpdatePathUrlExamplesAt(examples, primaryPath, page, KeyIndex(examples, primaryPath))

\* utils.js lines 236-242
LanguageEntry(languageData, lang, k) ==
    IF k = 0
    THEN [name |-> lang, language |-> Capitalize(lang), code |-> lang,
          total |-> 0, clicks |-> Zero, branded |-> 0, nonBranded |-> 0,
          sortableTotal |-> 0]
    ELSE languageData[k]

CountedClicks(old, category, clicks) ==
    [old EXCEPT !.total = @ + 1, !.clicks = RatAdd(@, clicks), ![category] = @ + 1,
                !.sortableTotal = old.total + 1]

UpdateLanguageDataAt(languageData, lang, category, clicks, k) ==
    PutEntry(languageData, k,
             CountedClicks(LanguageEntry(languageData, lang, k), category, clicks))

UpdateLanguageData(languageData, lang, category, clicks) ==
    UpdateLanguageDataAt(languageData, lang, category, clicks, KeyIndex(languageData, lang))

\* utils.js lines 244-245: normalizedData.find((r, i) => i < index && ...), and the
\* 0-based index of the row found, or -1
\* a variant that compares the texts of the cells, as a lookup keyed by a string
\* built from query and page does: the number 12 and the text "12" are one key
FindDuplicateByText(data, idx) ==
    LET hits == {i \in 0..(idx - 1) :
                    /\ ToStringValue(data[i + 1].query) = ToStringValue(data[idx + 1].query)
                    /\ ToStringValue(data[i + 1].page) = ToStringValue(data[idx + 1].page)}
    IN  IF hits = {} THEN -1 ELSE CHOOSE i \in hits : \A j \in hits : i <= j

\* a variant that finds the most recent earlier row instead of the first
FindDuplicateLast(data, idx) ==
    LET hits == {i \in 0..(idx - 1) :
                    /\ StrictEq(data[i + 1].query, data[idx + 1].query)
                    /\ StrictEq(data[i + 1].page, data[idx + 1].page)}
    IN  IF hits = {} THEN -1 ELSE CHOOSE i \in hits : \A j \in hits : i >= j

FindDuplicate(data, idx) ==
    LET hits == {i \in 0..(idx - 1) :
                    /\ StrictEq(data[i + 1].query, data[idx + 1].query)
                    /\ StrictEq(data[i + 1].page, data[idx + 1].page)}
    IN  IF hits = {} THEN -1 ELSE CHOOSE i \in hits : \A j \in hits : i <= j

\* the sample pushed at utils.js line 212; inferContentType(row.page) is called
\* twice, the second call reading the cache the first one filled
MakeSample(row, v, label1, label2, detect) ==
    [query |-> row.query, clicks |-> v.clicks, impressions |-> v.impressions,
     ctr |-> v.ctr, avgPosition |-> v.position, contentTypes |-> <<label1>>,
     urls |-> << [url |-> row.page, contentType |-> label2,
                  language |-> IF detect THEN Str(<<"e","n">>) ELSE Null] >>]

NoLog ==
    [outcome |-> "none", site |-> "none", category |-> "none", fault |-> "none",
     fullTest |-> FALSE, position |-> Zero]

\* the coerced cells of a row, utils.js lines 203-206
Coerced(row) ==
    [clicks |-> CoerceClicks(row), impressions |-> CoerceImpressions(row),
     ctr |-> CoerceCtr(row), position |-> CoercePosition(row)]

\* the bucket of a category after lines 208-210 (totalRows already counts the row)
UpdateMetrics(target, totalRows, v) ==
    [target EXCEPT !.metrics.clicks = RatAdd(@, v.clicks),
                   !.metrics.impressions = RatAdd(@, v.impressions),
                   !.metrics.avgPosition = NextAvgPosition(@, totalRows, v.position)]

\* utils.js lines 229-245 for a row resolved to loc, with dup the index of the
\* earlier row it duplicates, or -1
Tabulate(a, row, cfg, category, clicks, loc, dup) ==
    [a EXCEPT
       !.pathData = UpdatePathData(@, loc.primaryPath, category),
       !.pathUrlCounts = UpdatePathUrlCounts(@, loc.primaryPath),
       !.pathUrlExamples = UpdatePathUrlExamples(@, loc.primaryPath, row.page),
       !.languageData = IF cfg.detectLanguageCodes
                        THEN UpdateLanguageData(@, loc.lang, category, clicks)
                        ELSE @,
       !.duplicates = IF dup >= 0 THEN Append(@, [row |-> row, originalIndex |-> dup])
                      ELSE @]

\* a variant of lines 214-215 without the else branch: only branded rows counted
CountRowBrandedOnly(a, category) ==
    IF category = "branded" THEN [a EXCEPT !.summary.brandedRows = @ + 1] ELSE a

\* utils.js lines 214-215: if (isBrand) brandedRows++ else nonBrandedRows++
CountRow(a, category) ==
    IF category = "branded" THEN [a EXCEPT !.summary.brandedRows = @ + 1]
    ELSE [a EXCEPT !.summary.nonBrandedRows = @ + 1]

\* utils.js lines 214-245: the row counted in its category, then tabulated
CountAndTabulate(a, cache, data, idx, cfg, category, v, entry) ==
    [acc |-> Tabulate(CountRow(a, category), data[idx + 1], cfg, category, v.clicks,
                      ResolvePage(data[idx + 1].page, cfg.detectLanguageCodes),
                      FindDuplicate(data, idx)),
     cache |-> cache, next |-> "running", log |-> entry]

\* utils.js lines 211-213 when the bucket holds fewer than MaxSamples samples:
\* c1 and c2 are the two calls of inferContentType(row.page)
PushSample(a, cache, data, idx, cfg, category, v, entry, c1, c2) ==
    IF c1.kind = "throw"
    THEN [acc |-> a, cache |-> cache, next |-> "aborted",
          log |-> [entry EXCEPT !.outcome = "threw", !.site = "inferContentType"]]
    ELSE CountAndTabulate(
             [a EXCEPT ![category].samples =
                 Append(@, MakeSample(data[idx + 1], v, c1.label, c2.label,
                                      cfg.detectLanguageCodes))],
             c2.cache, data, idx, cfg, category, v, entry)

SecondCall(a, cache, data, idx, cfg, category, v, entry, c1) ==
    PushSample(a, cache, data, idx, cfg, category, v, entry, c1,
               IF c1.kind = "throw" THEN c1 ELSE InferContentType(data[idx + 1].page, c1.cache))

\* a variant of line 211 without the length test: every row leaves a sample
AfterMetricsUncapped(a, cache, data, idx, cfg, category, v, entry) ==
    SecondCall(a, cache, data, idx, cfg, category, v, entry,
               InferContentType(data[idx + 1].page, cache))

\* utils.js lines 211-245 with the bucket's metrics already updated
AfterMetrics(a, cache, data, idx, cfg, category, v, entry) ==
    IF Len(a[category].samples) < MaxSamples
    THEN SecondCall(a, cache, data, idx, cfg, category, v, entry,
                    InferContentType(data[idx + 1].page, cache))
    ELSE CountAndTabulate(a, cache, data, idx, cfg, category, v, entry)

\* utils.js lines 200-245 for a row classified into category
InCategory(a, cache, data, idx, cfg, b, category, v) ==
    AfterMetrics([a EXCEPT ![category] = UpdateMetrics(@, a.summary.totalRows, v)],
                 cache, data, idx, cfg, category, v,
                 [outcome |-> "counted", site |-> "none", category |-> category,
                  fault |-> b.fault, fullTest |-> b.fullTest, position |-> v.position])

\* utils.js lines 199-245 with b the outcome of isBranded(row.query)
Classified(a, cache, data, idx, cfg, b) ==
    IF b.kind # "ok"
    THEN [acc |-> a, cache |-> cache,
          next |-> IF b.kind = "throw" THEN "aborted" ELSE "hung",
          log |-> [NoLog EXCEPT !.outcome = IF b.kind = "throw" THEN "threw" ELSE "hung",
                                !.site = "isBranded", !.fullTest = b.fullTest]]
    ELSE InCategory(a, cache, data, idx, cfg, b,
                    IF b.value THEN "branded" ELSE "nonBranded", Coerced(data[idx + 1]))

\* one call of the forEach callback, utils.js lines 192-246, on row idx (0-based):
\* the accumulator, the content-type cache and the log entry afterwards, and
\* next: "running" (the callback returned), "aborted" (an exception left it) or
\* "hung" (it does not return)
RowCallback(a, cache, data, idx, cfg) ==
    IF ~Truthy(data[idx + 1].query) \/ ~Truthy(data[idx + 1].page)
    THEN [acc |-> a, cache |-> cache, next |-> "running",
          log |-> [NoLog EXCEPT !.outcome = "skipped"]]
    ELSE Classified([a EXCEPT !.summary.totalRows = @ + 1], cache, data, idx, cfg,
                    isBranded(data[idx + 1].query, cfg))

\* utils.js lines 248-251: the percentages and the bucket CTRs after the pass
\* a variant without the factor 100: the fraction instead of the percentage
PercentageAsFraction(part, total) ==
    IF total # 0 THEN RatDiv(Int2Rat(part), Int2Rat(total)) ELSE Zero

Percentage(part, total) ==
    IF total # 0 THEN RatMul(RatDiv(Int2Rat(part), Int2Rat(total)), Int2Rat(100)) ELSE Zero

\* a variant that divides whenever the impressions are not zero
BucketCtrOfAnySign(metrics) ==
    IF metrics.impressions.n # 0 THEN RatDiv(metrics.clicks, metrics.impressions)
    ELSE Zero

BucketCtr(metrics) ==
    IF metrics.impressions.n > 0 THEN RatDiv(metrics.clicks, metrics.impressions)
    ELSE Zero

FinishAcc(a) ==
    [a EXCEPT
       !.summary.brandedPercentage = Percentage(a.summary.brandedRows, a.summary.totalRows),
       !.summary.nonBrandedPercentage = Percentage(a.summary.nonBrandedRows, a.summary.totalRows),
       !.branded.metrics.ctr = BucketCtr(a.branded.metrics),
       !.nonBranded.metrics.ctr = BucketCtr(a.nonBranded.metrics)]

\* the result object of utils.js lines 253-276
MakeResult(data, a) ==
    [data |-> data,
     branded |-> a.branded,
     nonBranded |-> a.nonBranded,
     summary |-> a.summary,
     pathData |-> [k \in 1..Len(a.pathData) |->
                     [name |-> a.pathData[k].name,
                      total |-> a.pathData[k].total,
                      branded |-> Percentage(a.pathData[k].branded, a.pathData[k].total),
                      nonBranded |-> Percentage(a.pathData[k].nonBranded, a.pathData[k].total),
                      sortableTotal |-> a.pathData[k].sortableTotal]],
     languageData |-> [k \in 1..Len(a.languageData) |->
                     [a.languageData[k] EXCEPT
                        !.branded = Percentage(a.languageData[k].branded,
                                               a.languageData[k].total),
                        !.nonBranded = Percentage(a.languageData[k].nonBranded,
                                                  a.languageData[k].total)]],
     pathUrlExamples |-> a.pathUrlExamples,
     pathUrlCounts |-> a.pathUrlCounts,
     borderline |-> a.borderline,
     duplicates |-> a.duplicates,
     sampleRows |-> a.sampleRows]

-----------------------------------------------------------------------------
(* The export handlers of BrandTrafficAnalyzer.jsx, lines 109-173.  A CSV is *)
(* modelled by its data rows; a field is the string value written between    *)
(* the double quotes of `"${field}"`.                                        *)

\* the text of a content-type label
LabelText(l) ==
    CASE
         l = "Blog" -> <<"B","l","o","g">>
      [] l = "Product" -> <<"P","r","o","d","u","c","t">>
      [] l = "Support" -> <<"S","u","p","p","o","r","t">>
      [] l = "About" -> <<"A","b","o","u","t">>
      [] l = "Auth" -> <<"A","u","t","h">>
      [] l = "Homepage" -> <<"H","o","m","e","p","a","g","e">>
      [] l = "Other" -> <<"O","t","h","e","r">>
      [] l = "Unknown" -> <<"U","n","k","n","o","w","n">>

\* the digits of a number as JavaScript prints it, cut after 16 decimals
RECURSIVE FracDigitsUpTo(_, _, _)
FracDigitsUpTo(rem, d, k) ==
    IF rem = 0 \/ k = 0 THEN <<>>
    ELSE <<DigitChars[((rem * 10) \div d) + 1]>> \o FracDigitsUpTo((rem * 10) % d, d, k - 1)

NumberText(r) ==
    LET a == Abs(r.n)
        frac == FracDigitsUpTo(a % r.d, r.d, 16)
    IN  (IF r.n < 0 THEN <<"-">> ELSE <<>>) \o NatToString(a \div r.d)
          \o (IF frac = <<>> THEN <<>> ELSE <<".">> \o frac)

\* Number.prototype.toFixed(1), rounding half away from zero
ToFixed1(r) ==
    LET tenths == (2 * Abs(r.n) * 10 + r.d) \div (2 * r.d)
    IN  (IF r.n < 0 /\ tenths > 0 THEN <<"-">> ELSE <<>>)
          \o NatToString(tenths \div 10) \o <<".">> \o <<DigitChars[(tenths % 10) + 1]>>

ScaleBy100(r) == RatMul(r, Int2Rat(100))
Pct1(r) == ToFixed1(r) \o <<"%">>

\* `${field}` for a cell value or a number
FieldOfCell(x) == IF IsStr(x) THEN x ELSE Str(ToStringValue(x))
FieldOfNumber(r) == Str(NumberText(r))

\* field || fallback for a cell value
CellOr(x, fallback) == IF Truthy(x) THEN FieldOfCell(x) ELSE Str(fallback)
\* field || 0 for a number
NumberOr0(r) == IF r.n # 0 THEN FieldOfNumber(r) ELSE Str(<<"0">>)

\* one data row of exportQueryData, lines 135-140
QueryExportRow(row) ==
    << CellOr(row.query, <<>>),
       NumberOr0(row.clicks),
       NumberOr0(row.impressions),
       Str(ToFixed1(ScaleBy100(row.ctr))),
       Str(ToFixed1(row.avgPosition)),
       Str(LabelText(row.contentTypes[1])),
       CellOr(row.urls[1].url, <<>>),
       CellOr(row.urls[1].language, <<"e","n">>) >>

\* dataToExport of exportQueryData, lines 124-132
QueryExportData(r, type) ==
    CASE type = "branded" -> r.branded.samples
      [] type = "nonBranded" -> r.nonBranded.samples
      [] OTHER -> r.branded.samples \o r.nonBranded.samples

exportQueryData(r, type) ==
    LET dataToExport == QueryExportData(r, type)
    IN  [k \in 1..Len(dataToExport) |-> QueryExportRow(dataToExport[k])]

\* exportUrlData, line 114: inferContentType(row.name) is called on every path
\* name in turn, through the shared cache
UrlExportRow(row, label) ==
    << Str(row.name), FieldOfNumber(Int2Rat(row.sortableTotal)), FieldOfNumber(row.branded),
       FieldOfNumber(row.nonBranded), Str(LabelText(label)) >>

RECURSIVE UrlExportFrom(_, _, _, _)
UrlExportFrom(pathData, k, cache, rows) ==
    IF k > Len(pathData) THEN [rows |-> rows, cache |-> cache]
    ELSE UrlExportFrom(pathData, k + 1,
                       InferContentType(Str(pathData[k].name), cache).cache,
                       Append(rows, UrlExportRow(pathData[k],
                                  InferContentType(Str(pathData[k].name), cache).label)))

exportUrlData(r, cache) == UrlExportFrom(r.pathData, 1, cache, <<>>)

\* exportLanguageData, line 151
exportLanguageData(r) ==
    [k \in 1..Len(r.languageData) |->
        LET row == r.languageData[k]
        IN  << Str(row.language), Str(row.code), FieldOfNumber(Int2Rat(row.sortableTotal)),
               FieldOfNumber(row.clicks), FieldOfNumber(row.branded),
               FieldOfNumber(row.nonBranded) >>]

\* exportInsightsData, lines 163-168
exportInsightsData(r) ==
    <<
       << Str(<<"B","r","a","n","d","e","d"," ","C","T","R">>),
          Str(<<"B","r","a","n","d","e","d"," ","t","r","a","f","f","i","c"," ","C","T","R">>),
          Str(Pct1(ScaleBy100(r.branded.metrics.ctr))) >>,
       << Str(<<"N","o","n","-","B","r","a","n","d","e","d"," ","C","T","R">>),
          Str(<<"N","o","n","-","B","r","a","n","d","e","d"," ","t","r","a","f","f","i","c"," ","C","T","R">>),
          Str(Pct1(ScaleBy100(r.nonBranded.metrics.ctr))) >>,
       << Str(<<"B","r","a","n","d","e","d"," ","A","v","g"," ","P","o","s","i","t","i","o","n">>),
          Str(<<"A","v","e","r","a","g","e"," ","p","o","s","i","t","i","o","n"," ","f","o","r"," ","b","r","a","n","d","e","d"," ","t","e","r","m","s">>),
          Str(ToFixed1(r.branded.metrics.avgPosition)) >>,
       << Str(<<"N","o","n","-","B","r","a","n","d","e","d"," ","A","v","g"," ","P","o","s","i","t","i","o","n">>),
          Str(<<"A","v","e","r","a","g","e"," ","p","o","s","i","t","i","o","n"," ","f","o","r"," ","n","o","n","-","b","r","a","n","d","e","d"," ","t","e","r","m","s">>),
          Str(ToFixed1(r.nonBranded.metrics.avgPosition)) >>,
       << Str(<<"B","r","a","n","d","e","d"," ","P","e","r","c","e","n","t","a","g","e">>),
          Str(<<"P","e","r","c","e","n","t","a","g","e"," ","o","f"," ","b","r","a","n","d","e","d"," ","t","r","a","f","f","i","c">>),
          Str(Pct1(r.summary.brandedPercentage)) >>,
       << Str(<<"N","o","n","-","B","r","a","n","d","e","d"," ","P","e","r","c","e","n","t","a","g","e">>),
          Str(<<"P","e","r","c","e","n","t","a","g","e"," ","o","f"," ","n","o","n","-","b","r","a","n","d","e","d"," ","t","r","a","f","f","i","c">>),
          Str(Pct1(r.summary.nonBrandedPercentage)) >>
    >>


-----------------------------------------------------------------------------
(* The handlers: one upload-and-analysis session of BrandTrafficAnalyzer *)

Config ==
    [brandTerms |-> brandTerms, useCustomRegex |-> useCustomRegex,
     customRegex |-> customRegex, caseSensitive |-> caseSensitive,
     detectLanguageCodes |-> detectLanguageCodes]

NoResult == [present |-> FALSE, value |-> <<>>]
NoExport == [kind |-> "none", rows |-> <<>>]
NoCall == [done |-> FALSE, val |-> <<>>]
\* no further invocation of processCsvResults
NoOther == [pc |-> "none", data |-> <<>>, index |-> 0, acc |-> <<>>, result |-> <<>>]
EmptyCache == [u \in {} |-> "none"]

\* components.jsx line 71: row[col] === null || row[col] === undefined || row[col] === ''
IsEmptyCell(x) == x.t = "null" \/ (x.t = "str" /\ StrLen(x) = 0)

\* the expected columns' names as texts (components.jsx line 24)
expectedColumns ==
    [query |-> <<"q","u","e","r","y">>, page |-> <<"p","a","g","e">>,
     clicks |-> <<"c","l","i","c","k","s">>,
     impressions |-> <<"i","m","p","r","e","s","s","i","o","n","s">>,
     ctr |-> <<"c","t","r">>, position |-> <<"p","o","s","i","t","i","o","n">>]

\* components.jsx lines 54-55: the expected columns that the header
\* (results.meta.fields), lower-cased, does not hold
MissingColumns(fields) ==
    {col \in Fields :
        \A k \in 1..Len(fields) : ToLowerCase(fields[k]) # expectedColumns[col]}

\* components.jsx lines 61-67: normalizedRow[col] of row i, whose cells are in
\* the order of the header: the cell of the last column whose lower-cased name
\* is col, nothing without such a column
NormalizedCell(file, i, col) ==
    LET ks == {k \in 1..Len(file.fields) :
                  ToLowerCase(file.fields[k]) = expectedColumns[col]}
    IN  IF ks = {} THEN Null
        ELSE file.data[i][CHOOSE k \in ks : \A m \in ks : m <= k]

NormalizedRows(file) ==
    [i \in 1..Len(file.data) |->
       [query |-> NormalizedCell(file, i, "query"),
        page |-> NormalizedCell(file, i, "page"),
        clicks |-> NormalizedCell(file, i, "clicks"),
        impressions |-> NormalizedCell(file, i, "impressions"),
        ctr |-> NormalizedCell(file, i, "ctr"),
        position |-> NormalizedCell(file, i, "position")]]

\* a variant of line 71 that takes only null for an empty cell
EmptyColumnsNullOnly(data) ==
    {col \in Fields : \A i \in 1..Len(data) : data[i][col].t = "null"}

\* components.jsx lines 70-72
EmptyColumns(data) ==
    {col \in Fields : \A i \in 1..Len(data) : IsEmptyCell(data[i][col])}

\* FileUploadComponent.handleFileChange's parse-complete callback (components.jsx
\* lines 47-79); on acceptance handleFileUpload (BrandTrafficAnalyzer.jsx lines
\* 44-55) and analyzeData (lines 57-66) up to the start of processCsvResults
\* (utils.js lines 122-190)
Upload ==
    /\ pc = "idle"
    /\ LET data == NormalizedRows(selectedFile)
       IN  IF Len(selectedFile.data) = 0
           THEN /\ error' = "empty" /\ pc' = "rejected"
                /\ UNCHANGED <<csvData, normalizedData, index, acc, rowLog>>
           ELSE IF MissingColumns(selectedFile.fields) # {}
           THEN /\ error' = "missingColumns" /\ pc' = "rejected"
                /\ UNCHANGED <<csvData, normalizedData, index, acc, rowLog>>
           ELSE IF EmptyColumns(data) # {}
           THEN /\ error' = "emptyColumns" /\ pc' = "rejected"
                /\ UNCHANGED <<csvData, normalizedData, index, acc, rowLog>>
           ELSE /\ csvData' = data
                /\ error' = "none"
                /\ normalizedData' = data
                /\ index' = 0
                /\ acc' = InitAcc(data)
                /\ rowLog' = <<>>
                /\ pc' = "running"
    /\ UNCHANGED <<configVars, results, inferContentTypeCache, exported, selectedFile, other,
                   arg, ret>>

\* one iteration of normalizedData.forEach (utils.js lines 192-246); an exception
\* leaves processCsvResults and is caught by analyzeData (BrandTrafficAnalyzer.jsx
\* lines 82-84), which sets the error and stores no result
ProcessRow ==
    /\ pc = "running"
    /\ index < Len(normalizedData)
    /\ LET r == RowCallback(acc, inferContentTypeCache, normalizedData, index, Config)
       IN  /\ acc' = r.acc
           /\ inferContentTypeCache' = r.cache
           /\ rowLog' = Append(rowLog, r.log)
           /\ pc' = r.next
           /\ index' = IF r.next = "running" THEN index + 1 ELSE index
           /\ error' = IF r.next = "aborted" THEN "analysis" ELSE error
    /\ UNCHANGED <<configVars, csvData, results, normalizedData, exported, selectedFile, other,
                   arg, ret>>

\* the end of processCsvResults (utils.js lines 248-278) and setResults
\* (BrandTrafficAnalyzer.jsx line 67)
Finish ==
    /\ pc = "running"
    /\ index = Len(normalizedData)
    /\ acc' = FinishAcc(acc)
    /\ results' = [present |-> TRUE, value |-> MakeResult(normalizedData, acc')]
    /\ pc' = "done"
    /\ UNCHANGED <<configVars, csvData, error, normalizedData, index, rowLog,
                   inferContentTypeCache, exported, selectedFile, other, arg, ret>>

Idle == pc \in {"idle", "rejected", "aborted", "done"}

\* exportQueryData(type), BrandTrafficAnalyzer.jsx lines 120-144
ExportQuery ==
    /\ Idle
    /\ \E type \in {"all", "branded", "nonBranded"} :
         IF ~results.present
         THEN error' = "noResults" /\ UNCHANGED exported
         ELSE /\ exported' = [kind |-> "query", rows |-> exportQueryData(results.value, type)]
              /\ UNCHANGED error
    /\ UNCHANGED <<configVars, csvData, results, pc, normalizedData, index, acc, rowLog,
                   inferContentTypeCache, selectedFile, other, arg, ret>>

\* exportUrlData, BrandTrafficAnalyzer.jsx lines 109-118
ExportUrl ==
    /\ Idle
    /\ IF ~results.present
       THEN error' = "noResults" /\ UNCHANGED <<exported, inferContentTypeCache>>
       ELSE LET e == exportUrlData(results.value, inferContentTypeCache)
            IN  /\ exported' = [kind |-> "url", rows |-> e.rows]
                /\ inferContentTypeCache' = e.cache
                /\ UNCHANGED error
    /\ UNCHANGED <<configVars, csvData, results, pc, normalizedData, index, acc, rowLog,
                   selectedFile, other, arg, ret>>

\* exportLanguageData, BrandTrafficAnalyzer.jsx lines 146-155
ExportLanguage ==
    /\ Idle
    /\ IF ~results.present
       THEN error' = "noResults" /\ UNCHANGED exported
       ELSE /\ exported' = [kind |-> "language", rows |-> exportLanguageData(results.value)]
            /\ UNCHANGED error
    /\ UNCHANGED <<configVars, csvData, results, pc, normalizedData, index, acc, rowLog,
                   inferContentTypeCache, selectedFile, other, arg, ret>>

\* exportInsightsData, BrandTrafficAnalyzer.jsx lines 157-173
ExportInsights ==
    /\ Idle
    /\ IF ~results.present
       THEN error' = "noResults" /\ UNCHANGED exported
       ELSE /\ exported' = [kind |-> "insights", rows |-> exportInsightsData(results.value)]
            /\ UNCHANGED error
    /\ UNCHANGED <<configVars, csvData, results, pc, normalizedData, index, acc, rowLog,
                   inferContentTypeCache, selectedFile, other, arg, ret>>

Next ==
    \/ Upload
    \/ ProcessRow
    \/ Finish
    \/ ExportQuery
    \/ ExportUrl
    \/ ExportLanguage
    \/ ExportInsights

\* the state after construction, for a set of configurations and of files
InitWith(configs, files) ==
    /\ \E c \in configs :
         /\ brandTerms = c.brandTerms
         /\ useCustomRegex = c.useCustomRegex
         /\ customRegex = c.customRegex
         /\ caseSensitive = c.caseSensitive
         /\ detectLanguageCodes = c.detectLanguageCodes
    /\ selectedFile \in files
    /\ other = NoOther
    /\ csvData = <<>>
    /\ results = NoResult
    /\ error = "none"
    /\ pc = "idle"
    /\ normalizedData = <<>>
    /\ index = 0
    /\ acc = InitAcc(<<>>)
    /\ rowLog = <<>>
    /\ inferContentTypeCache = EmptyCache
    /\ exported = NoExport
    /\ arg = <<>>
    /\ ret = NoCall

-----------------------------------------------------------------------------
(* Inputs *)

\* the longest dataset of Spec, and of SpecPattern
MaxRows == 3
MaxPatternRows == 2

I(k) == Num(Int2Rat(k))

Row(q, p, cl, im, ct, po) ==
    [query |-> q, page |-> p, clicks |-> cl, impressions |-> im, ctr |-> ct, position |-> po]

\* "Ab" on https://s/blog, 10 clicks of 100 impressions, ctr "10%", position 2
RowBrandBlog ==
    Row(Str(<<"A","b">>), Str(<<"s","/","b","l","o","g">>), I(10), I(100),
        Str(<<"1","0","%">>), I(2))
\* "x" on https://s/en/x, impressions "1,000", ctr 0.5, position 4
RowPlainEn ==
    Row(Str(<<"x">>), Str(<<"s","/","e","n","/","x">>), I(1), Str(<<"1",",","0","0","0">>),
        Num(Rat(1, 2)), I(4))
\* a query that dynamic typing parsed as the number 12
RowNumericQuery == Row(I(12), Str(<<"s","/","x">>), I(3), I(30), Num(Rat(1, 10)), I(1))
\* a row without a query
RowNoQuery == Row(Null, Str(<<"s">>), I(1), I(10), Num(Rat(1, 10)), I(5))
\* a row without a page
RowNoPage == Row(Str(<<"A","b">>), Str(<<>>), I(1), I(10), Num(Rat(1, 10)), I(5))
\* a page that dynamic typing parsed as the number 7, non-numeric position
RowNumericPage == Row(Str(<<"a","b">>), I(7), Null, Null, Null, Str(<<"t","o","p">>))
\* a query that a spreadsheet reads as a formula
RowFormula ==
    Row(Str(<<"=","a","b">>), Str(<<"s">>), I(2), I(20), Str(<<"5","%">>), I(3))
\* a query holding an executable-content marker, in capitals
RowMarker ==
    Row(Str(<<"D","a","t","a",":">>), Str(<<"s","/","x">>), I(1), I(10), Num(Rat(1, 10)), I(6))

MainRows ==
    {RowBrandBlog, RowPlainEn, RowNumericQuery, RowNoQuery, RowNoPage, RowNumericPage,
     RowFormula, RowMarker}

\* a query of 100 001 characters: one more chunk than maxSteps allows
RowLongQuery ==
    Row(LongStr(<<>>, chunkSize * maxSteps + 1), Str(<<"s">>), I(1), I(10),
        Num(Rat(1, 10)), I(2))
\* the 500-character adversarial query for (a+)+$: 499 times 'a', then '!'
AdversarialQuery == [i \in 1..500 |-> IF i = 500 THEN "!" ELSE "a"]
RowAdversarial ==
    Row(Str(AdversarialQuery), Str(<<"s">>), I(1), I(10), Num(Rat(1, 10)), I(3))

PatternRows == {RowBrandBlog, RowPlainEn, RowNumericQuery, RowLongQuery, RowAdversarial}

SeqsUpTo(S, n) == UNION {[1..k -> S] : k \in 0..n}

\* the columns in the order of a Search Console export, and the same without ctr
ColumnOrder == <<"query", "page", "clicks", "impressions", "ctr", "position">>
ColumnsWithoutCtr == <<"query", "page", "clicks", "impressions", "position">>

\* the header in lower case ("query") and capitalised ("Query")
LowerHeader(cols) == [k \in 1..Len(cols) |-> expectedColumns[cols[k]]]
CapitalHeader(cols) == [k \in 1..Len(cols) |-> Capitalize(expectedColumns[cols[k]])]

\* what the parser delivers for a file with the columns cols under the header
\* texts header and the given rows: the header and, per row, the cells in the
\* order of the header
ParsedFile(cols, header, rows) ==
    [fields |-> header,
     data |-> [i \in 1..Len(rows) |-> [k \in 1..Len(cols) |-> rows[i][cols[k]]]]]

\* every file of up to n rows under the lower-case header; the files of at most
\* one row under the capitalised header; a file without the ctr column under
\* either header
FilesOf(rows, n) ==
    {ParsedFile(ColumnOrder, LowerHeader(ColumnOrder), d) : d \in SeqsUpTo(rows, n)}
      \cup {ParsedFile(ColumnOrder, CapitalHeader(ColumnOrder), d) : d \in SeqsUpTo(rows, 1)}
      \cup {ParsedFile(ColumnsWithoutCtr, LowerHeader(ColumnsWithoutCtr), <<RowPlainEn>>),
            ParsedFile(ColumnsWithoutCtr, CapitalHeader(ColumnsWithoutCtr), <<RowPlainEn>>)}

Cfg(bt, ur, cr, cs, dl) ==
    [brandTerms |-> bt, useCustomRegex |-> ur, customRegex |-> cr, caseSensitive |-> cs,
     detectLanguageCodes |-> dl]

\* term mode: the brand term is written "Ab"
TermConfigs ==
    {Cfg(<<"A","b">>, FALSE, <<>>, FALSE, TRUE),
     Cfg(<<"A","b">>, FALSE, <<>>, TRUE, TRUE),
     Cfg(<<"A","b">>, FALSE, <<>>, FALSE, FALSE)}

NestedPlusPattern == <<"(","a","+",")","+","$">>

\* pattern mode: a literal pattern, a pattern that does not compile, (a+)+$
PatternConfigs ==
    {Cfg(<<"A","b">>, TRUE, <<"a","b">>, FALSE, TRUE),
     Cfg(<<"A","b">>, TRUE, <<"(">>, FALSE, TRUE),
     Cfg(<<"A","b">>, TRUE, <<"(">>, TRUE, TRUE),
     Cfg(<<"A","b">>, TRUE, NestedPlusPattern, FALSE, TRUE)}

\* an upload session in term mode
Spec == InitWith(TermConfigs, FilesOf(MainRows, MaxRows)) /\ [][Next]_vars

\* an upload session in pattern mode
SpecPattern ==
    InitWith(PatternConfigs, FilesOf(PatternRows, MaxPatternRows)) /\ [][Next]_vars


-----------------------------------------------------------------------------
(* The functions of utils.js called on their own: arg is the argument of the *)
(* last call and ret what it returned.                                        *)

\* the state before any call, for a set of configurations and of arguments
InitCall(configs, args) ==
    /\ \E c \in configs :
         /\ brandTerms = c.brandTerms
         /\ useCustomRegex = c.useCustomRegex
         /\ customRegex = c.customRegex
         /\ caseSensitive = c.caseSensitive
         /\ detectLanguageCodes = c.detectLanguageCodes
    /\ selectedFile = [fields |-> <<>>, data |-> <<>>]
    /\ other = NoOther
    /\ csvData = <<>>
    /\ results = NoResult
    /\ error = "none"
    /\ pc = "call"
    /\ normalizedData = <<>>
    /\ index = 0
    /\ acc = InitAcc(<<>>)
    /\ rowLog = <<>>
    /\ inferContentTypeCache = EmptyCache
    /\ exported = NoExport
    /\ arg \in args
    /\ ret = NoCall

\* the longest query of SpecBrand
MaxQueryLen == 3
BrandQueries == SeqsUpTo({"A", "a", "b"}, MaxQueryLen) \ {<<>>}

\* brand terms "Ab", "ab", " b ,A", "," and ""
BrandTermTexts ==
    { <<"A","b">>, <<"a","b">>, <<" ","b"," ",",","A">>, <<",">>, <<>> }

\* term mode: useCustomRegex false, or customRegex empty
TermModes ==
    { [useCustomRegex |-> FALSE, customRegex |-> <<>>],
      [useCustomRegex |-> FALSE, customRegex |-> <<"a","b">>],
      [useCustomRegex |-> TRUE, customRegex |-> <<>>] }

TermModeConfigs ==
    {Cfg(bt, m.useCustomRegex, m.customRegex, cs, TRUE) :
        bt \in BrandTermTexts, m \in TermModes, cs \in BOOLEAN}

\* isBranded(query), utils.js lines 133-172, on a query of BrandQueries
CallIsBranded ==
    /\ \E q \in BrandQueries :
         /\ arg' = Str(q)
         /\ ret' = [done |-> TRUE, val |-> isBranded(Str(q), Config)]
    /\ UNCHANGED <<configVars, csvData, results, error, pc, normalizedData, index, acc,
                   rowLog, inferContentTypeCache, exported, selectedFile, other>>

SpecBrand == InitCall(TermModeConfigs, {<<>>}) /\ [][CallIsBranded]_vars

\* the most URLs the cache of SpecClassify holds
MaxCached == 3

\* no URL, "", "/", "/blog", "/Shop/help", "/contact", "s/contact", "contact",
\* "https://s/" and "https://s"
ClassifyUrls ==
    { Null, Str(<<>>), Str(<<"/">>), Str(<<"/","b","l","o","g">>),
      Str(<<"/","S","h","o","p","/","h","e","l","p">>),
      Str(<<"/","c","o","n","t","a","c","t">>),
      Str(<<"s","/","c","o","n","t","a","c","t">>),
      Str(<<"c","o","n","t","a","c","t">>),
      Str(<<"h","t","t","p","s",":","/","/","s","/">>),
      Str(<<"h","t","t","p","s",":","/","/","s">>) }

\* inferContentType(url), utils.js lines 4-21, through the module-level cache
CallInferContentType ==
    /\ \E url \in ClassifyUrls :
         /\ Cardinality(DOMAIN InferContentType(url, inferContentTypeCache).cache) <= MaxCached
         /\ arg' = url
         /\ ret' = [done |-> TRUE, val |-> InferContentType(url, inferContentTypeCache).label]
         /\ inferContentTypeCache' = InferContentType(url, inferContentTypeCache).cache
    /\ UNCHANGED <<configVars, csvData, results, error, pc, normalizedData, index, acc,
                   rowLog, exported, selectedFile, other>>

SpecClassify ==
    InitCall({Cfg(<<>>, FALSE, <<>>, FALSE, TRUE)}, {<<>>}) /\ [][CallInferContentType]_vars

\* the most segments of a pathname of SpecSegment
MaxSegments == 3
SegmentTexts ==
    { <<>>, <<"e","n">>, <<"E","N">>, <<"d","e">>, <<"x">>,
      <<"u","n","k","n","o","w","n">> }

\* '/' followed by the segments joined by '/': "/", "//en", "/EN/x/de", ...
Pathname(segs) == <<"/">> \o Join(segs, "/")

\* the pathnames of SpecSegment
SegmentCalls == {Pathname(segs) : segs \in SeqsUpTo(SegmentTexts, MaxSegments)}

\* detectLanguageOrPath(pathname, languageCodes), utils.js lines 109-120
CallDetectLanguageOrPath ==
    /\ ~ret.done
    /\ ret' = [done |-> TRUE, val |-> detectLanguageOrPath(arg, languageCodes)]
    /\ UNCHANGED <<configVars, csvData, results, error, pc, normalizedData, index, acc,
                   rowLog, inferContentTypeCache, exported, selectedFile, other, arg>>

SpecSegment ==
    InitCall({Cfg(<<>>, FALSE, <<>>, FALSE, TRUE)}, SegmentCalls)
      /\ [][CallDetectLanguageOrPath]_vars

-----------------------------------------------------------------------------
(* Properties *)

\* the rows among the first n of normalizedData with an empty query or page
SkippedAmong(n) ==
    Cardinality({k \in 1..n : ~Truthy(normalizedData[k].query)
                              \/ ~Truthy(normalizedData[k].page)})

\* C1: after any prefix of the rows has been processed, brandedRows +
\* nonBrandedRows = totalRows and totalRows + (rows skipped for an empty query or
\* page) = rows processed so far; at the end the two percentages add up to 100
\* when totalRows > 0 and are both 0 when totalRows = 0.
C1_CountsAddUp ==
    pc \in {"running", "done"} =>
      /\ acc.summary.brandedRows + acc.summary.nonBrandedRows = acc.summary.totalRows
      /\ acc.summary.totalRows + SkippedAmong(index) = index
      /\ (pc = "done" =>
            /\ results.present
            /\ results.value.summary = acc.summary
            /\ (acc.summary.totalRows > 0 =>
                  RatAdd(acc.summary.brandedPercentage,
                         acc.summary.nonBrandedPercentage) = Int2Rat(100))
            /\ (acc.summary.totalRows = 0 =>
                  /\ acc.summary.brandedPercentage = Zero
                  /\ acc.summary.nonBrandedPercentage = Zero))

\* a finished run that counted a branded and a non-branded row and skipped one
C1_Witness ==
    /\ pc = "done"
    /\ acc.summary.brandedRows >= 1
    /\ acc.summary.nonBrandedRows >= 1
    /\ SkippedAmong(index) >= 1

\* the rows counted so far in a category
CountedIn(category) ==
    {k \in 1..Len(rowLog) : rowLog[k].outcome = "counted" /\ rowLog[k].category = category}

\* the sum of the coerced positions of the rows of ks
RECURSIVE PositionSum(_)
PositionSum(ks) ==
    IF ks = {} THEN Zero
    ELSE RatAdd(CoercePosition(normalizedData[CHOOSE k \in ks : TRUE]),
                PositionSum(ks \ {CHOOSE k \in ks : TRUE}))

MeanPosition(ks) ==
    IF ks = {} THEN Zero ELSE RatDiv(PositionSum(ks), Int2Rat(Cardinality(ks)))

\* C2: after any sequence of rows, each bucket's metrics.avgPosition is the
\* arithmetic mean of the coerced positions of exactly the rows classified into
\* that bucket, and 0 for a bucket that received no row.
C2_BucketMeanPosition ==
    pc \in {"running", "done"} =>
      \A category \in {"branded", "nonBranded"} :
         acc[category].metrics.avgPosition = MeanPosition(CountedIn(category))

\* a term or a query as compared: lower-cased unless caseSensitive
Compared(s) == IF caseSensitive THEN s ELSE ToLowerCase(s)

\* the non-empty trimmed comma-separated brand terms, as written
WrittenTerms == SelectNonEmpty(TrimAll(Split(brandTerms, ",")))

\* C3: in term mode isBranded(query) is true exactly when some non-empty, trimmed,
\* comma-separated brand term is a substring of the query, both lower-cased when
\* caseSensitive is false and both compared as written when it is true.
C3_TermModeMatch ==
    ret.done =>
      /\ ret.val.kind = "ok"
      /\ ret.val.value =
           (\E k \in 1..Len(WrittenTerms) :
               Includes(Compared(Text(arg)), Compared(WrittenTerms[k])))

\* pattern mode: useCustomRegex with a non-empty customRegex
PatternMode == useCustomRegex /\ customRegex # <<>>

\* the rows processed so far whose classification ran into a fault
FaultRows == {k \in 1..Len(rowLog) : rowLog[k].fault \in {"compile", "budget"}}

C5_BudgetBoundsEvaluation ==
    /\ pc # "hung"
    /\ \A k \in 1..Len(rowLog) :
         (PatternMode /\ customRegex = NestedPlusPattern
            /\ normalizedData[k].query = Str(AdversarialQuery))
           => /\ rowLog[k].fault = "budget"
              /\ ~rowLog[k].fullTest
              /\ rowLog[k].category = "nonBranded"

\* C6: for every row sequence and every config the aggregation completes and
\* returns a result: a row with missing or malformed fields is either skipped or
\* counted, and never makes the run abort with an exception.
C6_NoRowAbortsTheRun ==
    /\ pc # "aborted"
    /\ error # "analysis"
    /\ \A k \in 1..Len(rowLog) : rowLog[k].outcome \in {"skipped", "counted"}

\* C7: in every export kind every data field written has been passed through
\* sanitizeCSVCell, so no exported field begins with '=', '+', '-' or '@'.
C7_ExportedFieldsSanitized ==
    \A i \in 1..Len(exported.rows) : \A j \in 1..Len(exported.rows[i]) :
       /\ ~StartsWithFormulaChar(exported.rows[i][j])
       /\ sanitizeCSVCell(exported.rows[i][j]) = exported.rows[i][j]

\* C8: an uploaded dataset in which a cell contains one of the markers is
\* rejected before aggregation begins: aggregation never runs on it and no
\* results are stored for it.
C8_MarkedDatasetRejected ==
    ~validateCSVContent(NormalizedRows(selectedFile)) =>
      /\ pc \in {"idle", "rejected"}
      /\ rowLog = <<>>
      /\ ~results.present

\* the path of a URL's text: what follows the scheme and the host, a text that
\* starts with '/' being a path already
PathPart(s) ==
    IF StartsWith(s, httpsScheme) THEN SubSeq(s, 9 + Len(TakeHost(SubSeq(s, 9, Len(s)))), Len(s))
    ELSE IF StartsWith(s, httpScheme)
         THEN SubSeq(s, 8 + Len(TakeHost(SubSeq(s, 8, Len(s)))), Len(s))
    ELSE IF StartsWith(s, <<"/">>) THEN s
    ELSE SubSeq(s, 1 + Len(TakeHost(s)), Len(s))

\* the rules before Homepage that match the lower-cased text
RulesMatching(s) ==
    {k \in 1..(Len(contentTypes) - 1) : RuleMatches(contentTypes[k], ToLowerCase(s))}

\* the label the fixed order Blog, Product, Support, About, Auth, Homepage gives,
\* Homepage being for '/' or an empty path only
LabelInOrder(url) ==
    IF ~Truthy(url) THEN "Unknown"
    ELSE IF RulesMatching(Text(url)) # {}
         THEN contentTypes[CHOOSE k \in RulesMatching(Text(url)) :
                              \A j \in RulesMatching(Text(url)) : k <= j].type
    ELSE IF PathPart(Text(url)) \in {<<>>, <<"/">>} THEN "Homepage"
    ELSE "Other"

\* C9: inferContentType(url) returns the label of the first rule, in the order
\* Blog, Product, Support, About, Auth, Homepage, whose pattern matches the
\* lower-cased URL; Homepage only for a URL that is '/' or has an empty path;
\* Other for a non-empty URL that matches no rule; Unknown for an empty or absent
\* URL.
C9_LabelOfFirstRule ==
    ret.done => ret.val = LabelInOrder(arg)

\* the first segment (1-based) that is a language code, 0 if there is none
FirstCode(segs) ==
    IF \E k \in 1..Len(segs) : ToLowerCase(segs[k]) \in languageCodes
    THEN CHOOSE k \in 1..Len(segs) :
            /\ ToLowerCase(segs[k]) \in languageCodes
            /\ \A j \in 1..(k - 1) : ToLowerCase(segs[j]) \notin languageCodes
    ELSE 0

\* segs without its element f, all of segs when f = 0
Without(segs, f) ==
    IF f = 0 THEN segs
    ELSE [k \in 1..(Len(segs) - 1) |-> IF k < f THEN segs[k] ELSE segs[k + 1]]

\* lang, path and primaryPath for the segments segs, the first language code at f
Expected(segs, f, rest) ==
    [lang |-> IF f = 0 THEN unknownLang ELSE segs[f],
     path |-> IF rest = <<>> THEN homepagePath ELSE <<"/">> \o Join(rest, "/"),
     primaryPath |-> IF rest = <<>> THEN homepagePath ELSE <<"/">> \o rest[1]]

ExpectedOf(segs) == Expected(segs, FirstCode(segs), Without(segs, FirstCode(segs)))

\* C10: among the non-empty '/'-separated segments the first one that is a
\* language code, case-insensitively, becomes lang ('unknown' if none) and is
\* removed; every other segment, a later language code included, stays in order;
\* path is '/' and the remaining segments joined by '/', primaryPath is '/' and
\* the first remaining segment, and both are '/homepage' when none remains.
C10_FirstCodeIsLang ==
    ret.done => ret.val = ExpectedOf(SelectNonEmpty(Split(arg, "/")))

\* "/EN/x/de": lang is "EN" as written, and the later code "de" stays in the path
C10_Witness ==
    /\ ret.done
    /\ arg = <<"/","E","N","/","x","/","d","e">>
    /\ ret.val.lang = <<"E","N">>
    /\ ret.val.path = <<"/","x","/","d","e">>
    /\ ret.val.primaryPath = <<"/","x">>

-----------------------------------------------------------------------------
(* The aggregation pass on its own: upload, rows, result *)

\* the longest dataset of SpecAggregate
MaxAggregateRows == 3

\* "Ab x" on the page "a b", which new URL rejects even as https://a b
RowInvalidPage ==
    Row(Str(<<"A","b"," ","x">>), Str(<<"a"," ","b">>), I(4), I(40), Str(<<"1","0","%">>),
        I(7))
\* "y" on the page "http://", which has no host
RowNoHost ==
    Row(Str(<<"y">>), Str(<<"h","t","t","p",":","/","/">>), Str(<<"n","/","a">>), I(0),
        Null, Null)
\* "x" on https://s/en/x with -50 impressions
RowNegative ==
    Row(Str(<<"x">>), Str(<<"s","/","e","n","/","x">>), I(5), I(0 - 50), I(0), I(1))

AggregateRows ==
    {RowBrandBlog, RowPlainEn, RowInvalidPage, RowNoHost, RowNegative, RowNoQuery}

SpecAggregate ==
    InitWith(TermConfigs, FilesOf(AggregateRows, MaxAggregateRows))
      /\ [][Upload \/ ProcessRow \/ Finish]_vars

\* row k (1-based) has a textual query and a textual page that new URL rejects,
\* prefixed with https:// unless it starts with http
UnparsablePage(k) ==
    /\ IsStr(normalizedData[k].query) /\ Truthy(normalizedData[k].query)
    /\ IsStr(normalizedData[k].page) /\ Truthy(normalizedData[k].page)
    /\ ~ParseUrl(IF StartsWith(Text(normalizedData[k].page), <<"h","t","t","p">>)
                 THEN Text(normalizedData[k].page)
                 ELSE httpsScheme \o Text(normalizedData[k].page)).ok

\* the total of the entry of a map named key, 0 without such an entry
TotalOf(entries, key) ==
    IF KeyIndex(entries, key) = 0 THEN 0 ELSE entries[KeyIndex(entries, key)].total

EarlierSame(j) ==
    {i \in 1..(j - 1) : /\ normalizedData[i].query = normalizedData[j].query
                        /\ normalizedData[i].page = normalizedData[j].page}

\* the duplicates of the first j rows: each non-skipped row that has an earlier
\* row with the same query and page, with the 0-based index of the first such row
RECURSIVE DuplicatesAmong(_)
DuplicatesAmong(j) ==
    IF j = 0 THEN <<>>
    ELSE IF /\ Truthy(normalizedData[j].query) /\ Truthy(normalizedData[j].page)
            /\ EarlierSame(j) # {}
         THEN Append(DuplicatesAmong(j - 1),
                     [row |-> normalizedData[j],
                      originalIndex |->
                         (CHOOSE i \in EarlierSame(j) : \A m \in EarlierSame(j) : i <= m) - 1])
    ELSE DuplicatesAmong(j - 1)

\* C12: a non-skipped row at index j is recorded in duplicates exactly when some
\* row at an index i < j has the same query and page, and originalIndex is the
\* smallest such i: k rows with the same (query, page) give k-1 entries that all
\* reference the first, and no row references itself or a later row.
C12_DuplicatesReferenceFirst ==
    pc \in {"running", "done"} =>
      /\ acc.duplicates = DuplicatesAmong(index)
      /\ (pc = "done" => results.value.duplicates = acc.duplicates)

\* three rows with the same query and page: two entries, both referencing row 0
C12_Witness ==
    /\ pc = "done"
    /\ Len(acc.duplicates) = 2
    /\ acc.duplicates[1].originalIndex = 0
    /\ acc.duplicates[2].originalIndex = 0

-----------------------------------------------------------------------------
(* Datasets longer than a bucket's sample list *)

\* the longest dataset of SpecSamples: more rows than MaxSamples in one bucket
MaxSampleRows == 12

\* row i of such a dataset: i clicks, which tells the rows apart, and a query
\* that holds the brand term or not
SampleRow(i, brand) ==
    Row(IF brand THEN Str(<<"A","b">>) ELSE Str(<<"x">>), Str(<<"s">>), I(i), I(100),
        Num(Rat(1, 10)), I(1))

\* the most rows of such a dataset that fall into the other bucket
MaxMinority == 2

\* every dataset of up to MaxSampleRows rows in which all rows but at most
\* MaxMinority, at any positions, fall into one bucket
SampleFiles ==
    {ParsedFile(ColumnOrder, LowerHeader(ColumnOrder),
                [i \in 1..k |-> SampleRow(i, (i \in others) # major)]) :
        k \in 0..MaxSampleRows, major \in BOOLEAN,
        others \in {S \in SUBSET (1..MaxSampleRows) : Cardinality(S) <= MaxMinority}}

SpecSamples ==
    /\ InitWith({Cfg(<<"A","b">>, FALSE, <<>>, FALSE, TRUE)}, SampleFiles)
    /\ [][Upload \/ ProcessRow \/ Finish]_vars

\* the indices (1-based) among the first j rows that were classified into category
ClassifiedInto(category, j) == {i \in 1..j : rowLog[i].category = category}

\* the m-th smallest element of a set of indices
RECURSIVE Nth(_, _)
Nth(S, m) ==
    LET least == CHOOSE i \in S : \A j \in S : i <= j
    IN  IF m = 1 THEN least ELSE Nth(S \ {least}, m - 1)

\* sample s was taken from row r
SampleOf(s, r) ==
    /\ s.query = r.query
    /\ s.clicks = CoerceClicks(r)
    /\ s.impressions = CoerceImpressions(r)
    /\ s.avgPosition = CoercePosition(r)
    /\ s.urls[1].url = r.page

\* the samples of a category are the first min(MaxSamples, n) rows classified
\* into it, in input order
FirstSeen(category) ==
    LET rows == ClassifiedInto(category, index)
        samples == acc[category].samples
    IN  /\ Len(samples) = IF Cardinality(rows) < MaxSamples THEN Cardinality(rows)
                           ELSE MaxSamples
        /\ \A m \in 1..Len(samples) : SampleOf(samples[m], normalizedData[Nth(rows, m)])

\* C13: after any prefix of the rows, each bucket's samples are exactly the first
\* min(10, n) rows classified into the bucket, in input order, n being the number
\* of rows classified into it so far; never more than 10, and no retained sample
\* is replaced by a later row.
C13_SamplesAreFirstSeen ==
    pc \in {"running", "done"} =>
      /\ FirstSeen("branded")
      /\ FirstSeen("nonBranded")
      /\ Len(acc.branded.samples) <= MaxSamples
      /\ Len(acc.nonBranded.samples) <= MaxSamples

\* an eleventh branded row was processed after a non-branded row came in between
C13_Witness ==
    /\ pc = "running"
    /\ Cardinality(ClassifiedInto("branded", index)) > MaxSamples
    /\ ClassifiedInto("nonBranded", index - 1) # {}
    /\ rowLog[index].category = "branded"

-----------------------------------------------------------------------------
(* Bucket metrics *)

\* the sum of a coerced field over the first j rows classified into category
RECURSIVE SumOver(_, _, _)
SumOver(field, category, j) ==
    IF j = 0 THEN Zero
    ELSE IF rowLog[j].category = category
         THEN RatAdd(SumOver(field, category, j - 1), Coerced(normalizedData[j])[field])
    ELSE SumOver(field, category, j - 1)

\* the bucket's clicks and impressions are the sums over its rows
BucketSums(category) ==
    /\ results.value[category].metrics.clicks = SumOver("clicks", category, index)
    /\ results.value[category].metrics.impressions = SumOver("impressions", category, index)

\* ctr is clicks / impressions whenever the impressions are not zero, and 0 at zero
CtrIsQuotient(category) ==
    LET m == results.value[category].metrics
    IN  m.ctr = IF m.impressions = Zero THEN Zero
                ELSE RatDiv(SumOver("clicks", category, index),
                            SumOver("impressions", category, index))

\* ctr is clicks / impressions when the impressions are positive, and 0 otherwise
CtrIsGuardedQuotient(category) ==
    LET m == results.value[category].metrics
    IN  m.ctr = IF m.impressions.n > 0
                THEN RatDiv(SumOver("clicks", category, index),
                            SumOver("impressions", category, index))
                ELSE Zero

\* C14 as stated: after the pass each bucket's clicks and impressions are the
\* sums of the coerced clicks and impressions of exactly its rows, and ctr is
\* clicks / impressions, 0 when the impressions are 0.
C14_CtrIsClicksOverImpressions ==
    pc = "done" =>
      \A category \in {"branded", "nonBranded"} :
         BucketSums(category) /\ CtrIsQuotient(category)

\* C14: after the pass each bucket's clicks and impressions are the sums of the
\* coerced clicks and impressions of exactly its rows, and ctr is clicks /
\* impressions of the bucket when its impressions are greater than 0, and 0 when
\* they are 0 or negative, whatever the rows' own ctr values.
C14_CtrGuardedByPositiveImpressions ==
    pc = "done" =>
      \A category \in {"branded", "nonBranded"} :
         BucketSums(category) /\ CtrIsGuardedQuotient(category)

\* impressions "1,000" and clicks "n/a" in one bucket: 1000 impressions, 1 click,
\* ctr 1/1000 although the rows say 0.5 and nothing; and the branded row alone
\* with 10 clicks of 100 impressions: ctr 0.1
C14_Witness ==
    /\ pc = "done"
    /\ normalizedData = <<RowPlainEn, RowNoHost, RowBrandBlog>>
    /\ results.value.nonBranded.metrics.impressions = Int2Rat(1000)
    /\ results.value.nonBranded.metrics.clicks = Int2Rat(1)
    /\ results.value.nonBranded.metrics.ctr = Rat(1, 1000)
    /\ results.value.branded.metrics.ctr = Rat(1, 10)

-----------------------------------------------------------------------------
(* Percentages of the path and language entries *)

\* where the page of row j (1-based) was resolved to
LocationOf(j) == ResolvePage(normalizedData[j].page, detectLanguageCodes)

\* the rows of a category counted under a primary path, and under a language
PathCount(name, category) ==
    Cardinality({j \in 1..index : /\ rowLog[j].category = category
                                  /\ LocationOf(j).primaryPath = name})
LanguageCount(code, category) ==
    Cardinality({j \in 1..index : /\ rowLog[j].category = category
                                  /\ LocationOf(j).lang = code})

\* the entry's percentages for b branded and n non-branded rows
PercentagesOf(entry, b, n) ==
    /\ entry.total = b + n
    /\ entry.total > 0 =>
         /\ entry.branded = Rat(b * 100, entry.total)
         /\ entry.nonBranded = Rat(n * 100, entry.total)
         /\ RatAdd(entry.branded, entry.nonBranded) = Int2Rat(100)
    /\ entry.total = 0 => entry.branded = Zero /\ entry.nonBranded = Zero
    /\ \A p \in {entry.branded, entry.nonBranded} :
         p.d > 0 /\ 0 <= p.n /\ p.n <= 100 * p.d

\* C15: in the result, the branded and non-branded percentages of every path
\* entry and every language entry are category count / total * 100, each within
\* [0, 100]; the two add up to 100 when the total is positive and both are 0,
\* never NaN, when the total is 0.
C15_EntryPercentages ==
    pc = "done" =>
      /\ \A k \in 1..Len(results.value.pathData) :
           PercentagesOf(results.value.pathData[k],
                         PathCount(results.value.pathData[k].name, "branded"),
                         PathCount(results.value.pathData[k].name, "nonBranded"))
      /\ \A k \in 1..Len(results.value.languageData) :
           PercentagesOf(results.value.languageData[k],
                         LanguageCount(results.value.languageData[k].code, "branded"),
                         LanguageCount(results.value.languageData[k].code, "nonBranded"))

\* one branded row of three under a path and under a language
C15_Witness ==
    /\ pc = "done"
    /\ \E k \in 1..Len(results.value.pathData) :
         /\ results.value.pathData[k].total = 3
         /\ results.value.pathData[k].branded = Rat(100, 3)
         /\ results.value.pathData[k].nonBranded = Rat(200, 3)
    /\ \E k \in 1..Len(results.value.languageData) :
         /\ results.value.languageData[k].total = 3
         /\ results.value.languageData[k].branded = Rat(100, 3)

-----------------------------------------------------------------------------
(* DataQuality: analyzeDataQuality, utils.js lines 51-107.  The cells of    *)
(* clicks and impressions are numbers, null or non-numeric text, as dynamic *)
(* typing leaves them; the standard deviation is kept as its square.        *)

RatNeg(a) == [n |-> -a.n, d |-> a.d]
RatSub(a, b) == RatAdd(a, RatNeg(b))
RatLess(a, b) == a.n * b.d < b.n * a.d
Square(a) == RatMul(a, a)

\* the fields of line 57
qualityFields == <<"query", "page", "clicks", "impressions", "ctr", "position">>

\* line 58: !row[field] && row[field] !== 0
IsMissing(x) == ~Truthy(x) /\ ~(x.t = "num" /\ ~IsNaN(x.v))

\* lines 57-59
MissingValues(data) ==
    [f \in {qualityFields[i] : i \in 1..Len(qualityFields)} |->
        Cardinality({i \in 1..Len(data) : IsMissing(data[i][f])})]

RECURSIVE SumSeq(_)
SumSeq(s) == IF s = <<>> THEN 0 ELSE Head(s) + SumSeq(Tail(s))

\* Object.values(missingValues).reduce((a, b) => a + b, 0)
TotalMissing(missing) == SumSeq([i \in 1..Len(qualityFields) |-> missing[qualityFields[i]]])

\* lines 61-62: data.map(row => row[field] || 0).filter(v => !isNaN(v)), as numbers
KeptValue(x) == ~IsNaN(ToNumber(IF Truthy(x) THEN x ELSE Num(Zero)))
FieldValues(data, field) ==
    LET cells == SelectSeq([i \in 1..Len(data) |-> data[i][field]], KeptValue)
    IN  [i \in 1..Len(cells) |-> ToNumber(cells[i])]

RECURSIVE RatSum(_)
RatSum(s) == IF s = <<>> THEN Zero ELSE RatAdd(Head(s), RatSum(Tail(s)))

\* lines 64 and 71: the mean of the kept values
Mean(values) == RatDiv(RatSum(values), Int2Rat(Len(values)))

\* lines 65 and 72 before Math.sqrt: the population variance
Variance(values, mean) ==
    RatDiv(RatSum([i \in 1..Len(values) |-> Square(RatSub(values[i], mean))]),
           Int2Rat(Len(values)))

\* a variant of the upper comparison that also flags a value at the bound
AboveUpperOrAt(v, mean, variance) ==
    /\ ~IsNaN(v)
    /\ ~RatLess(RatSub(v, mean), Zero)
    /\ ~RatLess(Square(RatSub(v, mean)), RatMul(Int2Rat(9), variance))

\* v > mean + 3 * Math.sqrt(variance); false for NaN
AboveUpper(v, mean, variance) ==
    /\ ~IsNaN(v)
    /\ RatLess(Zero, RatSub(v, mean))
    /\ RatLess(RatMul(Int2Rat(9), variance), Square(RatSub(v, mean)))

\* v < mean - 3 * Math.sqrt(variance); false for NaN
BelowLower(v, mean, variance) ==
    /\ ~IsNaN(v)
    /\ RatLess(RatSub(v, mean), Zero)
    /\ RatLess(RatMul(Int2Rat(9), variance), Square(RatSub(v, mean)))

\* lines 66-68 and 73-75: the rows whose cell lies beyond a bound, each as
\* {query, clicks, avgClicks} or {query, impressions, avgImpressions}
OutlierRows(data, field, mean, variance) ==
    LET flagged == SelectSeq([i \in 1..Len(data) |-> i],
                      LAMBDA i : \/ AboveUpper(ToNumber(data[i][field]), mean, variance)
                                 \/ BelowLower(ToNumber(data[i][field]), mean, variance))
    IN  [k \in 1..Len(flagged) |->
           [query |-> data[flagged[k]].query, value |-> data[flagged[k]][field],
            avg |-> mean]]

\* lines 63-69 and 70-76: outliers[field] is set only when a value was kept
OutliersOf(data, field, values) ==
    IF Len(values) = 0 THEN [present |-> FALSE, list |-> <<>>]
    ELSE [present |-> TRUE,
          list |-> OutlierRows(data, field, Mean(values), Variance(values, Mean(values)))]

Outliers(data) ==
    [clicks |-> OutliersOf(data, "clicks", FieldValues(data, "clicks")),
     impressions |-> OutliersOf(data, "impressions", FieldValues(data, "impressions"))]

\* line 78
Completeness(totalRows, total) ==
    IF totalRows > 0
    THEN RatMul(RatSub(Int2Rat(1), Rat(total, totalRows * Len(qualityFields))), Int2Rat(100))
    ELSE Zero

\* a variant of line 101 without the cap
HealthScoreUncapped(completeness) ==
    IF RatLess(completeness, Zero) THEN Zero ELSE completeness

\* line 101: Math.max(0, Math.min(95, completeness))
HealthScore(completeness) ==
    IF RatLess(completeness, Zero) THEN Zero
    ELSE IF RatLess(Int2Rat(95), completeness) THEN Int2Rat(95)
    ELSE completeness

\* a variant of line 79 that warns only when every field has a missing value
MissingWarningIfAll(missing) ==
    IF \A i \in 1..Len(qualityFields) : missing[qualityFields[i]] > 0
    THEN << [type |-> "MissingData", severity |-> "medium",
             count |-> TotalMissing(missing)] >>
    ELSE <<>>

\* lines 79-88
MissingWarning(missing) ==
    IF \E i \in 1..Len(qualityFields) : missing[qualityFields[i]] > 0
    THEN << [type |-> "MissingData", severity |-> "medium",
             count |-> TotalMissing(missing)] >>
    ELSE <<>>

\* lines 89-98
OutlierWarning(outliers) ==
    IF Len(outliers.clicks.list) > 0 \/ Len(outliers.impressions.list) > 0
    THEN << [type |-> "Outliers", severity |-> "low",
             count |-> Len(outliers.clicks.list) + Len(outliers.impressions.list)] >>
    ELSE <<>>

\* lines 100-106
Report(data, missing, outliers) ==
    [healthScore |-> HealthScore(Completeness(Len(data), TotalMissing(missing))),
     missingValues |-> missing,
     outliers |-> outliers,
     warnings |-> MissingWarning(missing) \o OutlierWarning(outliers)]

analyzeDataQuality(data) == Report(data, MissingValues(data), Outliers(data))

\* the longest dataset drawn from QualityRows, and the longest with a lone value
MaxQualityRows == 2
MaxOutlierRows == 11

QualityRows ==
    {RowBrandBlog, RowNoQuery, RowNoPage, RowNumericPage, RowNoHost, RowNegative}

\* n rows whose cell of one field is base, but for the row at position p
LoneValueData(n, p, field, base, lone) ==
    [i \in 1..n |->
       [Row(Str(<<"x">>), Str(<<"s">>), I(1), I(1), Num(Rat(1, 10)), I(1))
          EXCEPT ![field] = IF i = p THEN lone ELSE base]]

LoneValueDatasets ==
    {LoneValueData(n, IF last THEN n ELSE 1, field, pair[1], pair[2]) :
        n \in 1..MaxOutlierRows, last \in BOOLEAN, field \in {"clicks", "impressions"},
        pair \in {<<I(0), I(10)>>, <<I(10), I(0)>>, <<I(0), I(-10)>>, <<I(10), Null>>,
                  <<I(10), Str(<<"n","/","a">>)>>, <<Null, I(10)>>}}

QualityDatasets == SeqsUpTo(QualityRows, MaxQualityRows) \cup LoneValueDatasets

\* analyzeDataQuality(data), utils.js lines 51-107
CallAnalyzeDataQuality ==
    /\ ~ret.done
    /\ ret' = [done |-> TRUE, val |-> analyzeDataQuality(arg)]
    /\ UNCHANGED <<configVars, csvData, results, error, pc, normalizedData, index, acc,
                   rowLog, inferContentTypeCache, exported, selectedFile, other, arg>>

SpecQuality ==
    InitCall({Cfg(<<>>, FALSE, <<>>, FALSE, TRUE)}, QualityDatasets)
      /\ [][CallAnalyzeDataQuality]_vars

\* the cells of the dataset that hold nothing: null or the empty text
Lacking(field) == {i \in 1..Len(arg) : arg[i][field] \in {Null, Str(<<>>)}}
LackingCells == {c \in (1..Len(arg)) \X Fields : c[1] \in Lacking(c[2])}

\* (1 - totalMissing / (rows * 6)) * 100
CompletenessOf(rows, totalMissing) ==
    RatMul(Rat(rows * 6 - totalMissing, rows * 6), Int2Rat(100))

\* C16: healthScore is (1 - totalMissing / (rows * 6)) * 100 clamped to [0, 95]:
\* never above 95, never below 0, 95 for a dataset without a missing value and 0
\* for the empty dataset.
C16_HealthScoreClamped ==
    ret.done =>
      LET score == ret.val.healthScore
          whole == IF Len(arg) > 0
                   THEN CompletenessOf(Len(arg), Cardinality(LackingCells)) ELSE Zero
      IN  /\ ~RatLess(score, Zero) /\ ~RatLess(Int2Rat(95), score)
          /\ score = IF RatLess(Int2Rat(95), whole) THEN Int2Rat(95) ELSE whole
          /\ (Len(arg) > 0 /\ LackingCells = {}) => score = Int2Rat(95)
          /\ Len(arg) = 0 => score = Zero

\* two complete rows: completeness 100, healthScore 95
C16_Witness ==
    /\ ret.done
    /\ Len(arg) = 2
    /\ LackingCells = {}
    /\ ret.val.healthScore = Int2Rat(95)

\* the numeric values of a field: a number as it is, an empty cell as 0, text
\* that is not a number left out
NumericRows(field) == {i \in 1..Len(arg) : ~IsNaN(ToNumber(arg[i][field]))}
ValueAt(field, i) == ToNumber(arg[i][field])

RECURSIVE SumOfValues(_, _)
SumOfValues(field, S) ==
    IF S = {} THEN Zero
    ELSE LET i == CHOOSE j \in S : TRUE
         IN  RatAdd(ValueAt(field, i), SumOfValues(field, S \ {i}))

MeanOf(field) ==
    RatDiv(SumOfValues(field, NumericRows(field)), Int2Rat(Cardinality(NumericRows(field))))

RECURSIVE SumOfSquares(_, _, _)
SumOfSquares(field, S, mean) ==
    IF S = {} THEN Zero
    ELSE LET i == CHOOSE j \in S : TRUE
         IN  RatAdd(Square(RatSub(ValueAt(field, i), mean)),
                    SumOfSquares(field, S \ {i}, mean))

\* the square of the population standard deviation
VarianceOf(field) ==
    RatDiv(SumOfSquares(field, NumericRows(field), MeanOf(field)),
           Int2Rat(Cardinality(NumericRows(field))))

\* the value of row i against mean + 3*stddev and mean - 3*stddev, compared
\* through the squares: "beyond", "at" or "within"
Against3Sigma(field, i) ==
    LET dev == Square(RatSub(ValueAt(field, i), MeanOf(field)))
        limit == RatMul(Int2Rat(9), VarianceOf(field))
    IN  IF RatLess(limit, dev) THEN "beyond" ELSE IF dev = limit THEN "at" ELSE "within"

\* the rows (1-based, in order) that the report lists as outliers of a field:
\* the list is a subsequence of the rows, matched greedily
RECURSIVE ListedFrom(_, _, _)
ListedFrom(field, list, i) ==
    IF list = <<>> \/ i > Len(arg) THEN {}
    ELSE IF /\ Head(list).query = arg[i].query
            /\ Head(list).value = arg[i][field]
            /\ i \in NumericRows(field)
            /\ Against3Sigma(field, i) # "within"
         THEN {i} \cup ListedFrom(field, Tail(list), i + 1)
    ELSE ListedFrom(field, list, i + 1)

\* C17: for clicks and for impressions independently, with the mean and the
\* population standard deviation of the field's values, a row is flagged exactly
\* when its value is strictly greater than mean + 3*stddev or strictly less than
\* mean - 3*stddev; a value equal to either bound is not flagged.
C17_OutliersStrictlyBeyond ==
    ret.done =>
      \A field \in {"clicks", "impressions"} :
        LET list == ret.val.outliers[field].list
            listed == ListedFrom(field, list, 1)
        IN  /\ Cardinality(listed) = Len(list)
            /\ \A k \in 1..Len(list) : list[k].avg = MeanOf(field)
            /\ \A i \in 1..Len(arg) :
                 i \in listed <=> (i \in NumericRows(field)
                                   /\ Against3Sigma(field, i) = "beyond")

\* nine rows with 0 clicks and one with 10: the 10 is exactly mean + 3*stddev
\* (1 + 3*3) and is not flagged
C17_Witness ==
    /\ ret.done
    /\ Len(arg) = 10
    /\ arg[10].clicks = I(10)
    /\ \A i \in 1..9 : arg[i].clicks = I(0)
    /\ Against3Sigma("clicks", 10) = "at"
    /\ ret.val.outliers.clicks.list = <<>>

\* the warnings of a type in the report
WarningsOf(type) ==
    {k \in 1..Len(ret.val.warnings) : ret.val.warnings[k].type = type}

RECURSIVE TotalLacking(_)
TotalLacking(fields) ==
    IF fields = {} THEN 0
    ELSE LET f == CHOOSE g \in fields : TRUE
         IN  Cardinality(Lacking(f)) + TotalLacking(fields \ {f})

\* C18: for each of the six fields, missingValues[field] is the number of rows
\* whose value for the field is falsy and not numeric zero; a MissingData warning
\* of severity medium, with the sum of the counts as its count, is emitted exactly
\* when some count is positive, and an Outliers warning of severity low exactly
\* when some outlier list is not empty; when every row lacks impressions,
\* missingValues.impressions is the number of rows.
C18_MissingCountsAndWarnings ==
    ret.done =>
      /\ \A f \in Fields : ret.val.missingValues[f] = Cardinality(Lacking(f))
      /\ Cardinality(WarningsOf("MissingData")) =
            IF \E f \in Fields : Lacking(f) # {} THEN 1 ELSE 0
      /\ \A k \in WarningsOf("MissingData") :
            /\ ret.val.warnings[k].severity = "medium"
            /\ ret.val.warnings[k].count = TotalLacking(Fields)
      /\ Cardinality(WarningsOf("Outliers")) =
            IF \E f \in {"clicks", "impressions"} : ret.val.outliers[f].list # <<>>
            THEN 1 ELSE 0
      /\ \A k \in WarningsOf("Outliers") : ret.val.warnings[k].severity = "low"
      /\ Lacking("impressions") = 1..Len(arg) =>
            ret.val.missingValues.impressions = Len(arg)

\* two rows, both without impressions, the other fields not all lacking: the
\* count is 2 and the warning is there; and zero clicks are not missing
C18_Witness ==
    /\ ret.done
    /\ Len(arg) = 2
    /\ Lacking("impressions") = {1, 2}
    /\ Lacking("query") = {}
    /\ ret.val.missingValues.impressions = 2
    /\ ret.val.missingValues.query = 0
    /\ WarningsOf("MissingData") # {}


-----------------------------------------------------------------------------
(* sanitizeCSVCell on its own, applied to a value and then to its own result *)

\* the longest text handed to sanitizeCSVCell
MaxCellLen == 3

CellValues ==
    {Str(s) : s \in SeqsUpTo({"=", "+", "-", "@", "'", "a"}, MaxCellLen)}
      \cup {Null, I(0), I(-5), Num(Rat(1, 2))}

\* sanitizeCSVCell(content), utils.js lines 302-310: the first call on arg, the
\* second on what the first returned; ret.val holds the returned values
CallSanitizeCSVCell ==
    /\ Len(ret.val) < 2
    /\ ret' = [done |-> TRUE,
               val |-> Append(ret.val, sanitizeCSVCell(IF ret.val = <<>> THEN arg
                                                       ELSE ret.val[Len(ret.val)]))]
    /\ UNCHANGED <<configVars, csvData, results, error, pc, normalizedData, index, acc,
                   rowLog, inferContentTypeCache, exported, selectedFile, other, arg>>

SpecSanitize ==
    InitCall({Cfg(<<>>, FALSE, <<>>, FALSE, TRUE)}, CellValues)
      /\ [][CallSanitizeCSVCell]_vars

\* a text starting with '=', '+', '-' or '@'
IsFormulaLike(x) == x.t = "str" /\ x.v # <<>> /\ x.v[1] \in {"=", "+", "-", "@"}

\* C19: a textual value starting with '=', '+', '-' or '@' is returned with an
\* apostrophe prefixed, so the result never starts with one of those characters;
\* a textual value starting with another character, and a value that is not
\* text, is returned unchanged; applying the function twice gives the same
\* result as applying it once.
C19_FormulaCellsNeutralized ==
    ret.done =>
      /\ IsFormulaLike(arg) => ret.val[1] = Str(<<"'">> \o arg.v)
      /\ ~IsFormulaLike(arg) => ret.val[1] = arg
      /\ ~IsFormulaLike(ret.val[1])
      /\ Len(ret.val) = 2 => ret.val[2] = ret.val[1]

\* "=a" sanitized twice: "'=a" both times
C19_Witness ==
    /\ arg = Str(<<"=", "a">>)
    /\ ret.val = << Str(<<"'", "=", "a">>), Str(<<"'", "=", "a">>) >>

-----------------------------------------------------------------------------
(* Refused uploads *)

\* the header names an expected column, letter case apart
HeaderHas(col) ==
    \E k \in 1..Len(selectedFile.fields) :
       ToLowerCase(selectedFile.fields[k]) = expectedColumns[col]

\* the cells of the selected file under an expected column that the header names
CellsUnder(col) ==
    {selectedFile.data[i][k] :
        i \in 1..Len(selectedFile.data),
        k \in {m \in 1..Len(selectedFile.fields) :
                 ToLowerCase(selectedFile.fields[m]) = expectedColumns[col]}}

\* the selected file has no data rows, or lacks an expected column, or holds an
\* expected column that is empty in every row
Deficient ==
    \/ selectedFile.data = <<>>
    \/ \E col \in Fields : ~HeaderHas(col)
    \/ \E col \in Fields : CellsUnder(col) \subseteq {Null, Str(<<>>)}

\* C20: an upload whose header lacks one of the six columns (compared without
\* regard to letter case), or in which an expected column is empty in every
\* row, or which has no data rows, is refused with an error message and never
\* handed to the analysis: onFileUpload and the aggregation are not invoked.
C20_DeficientUploadRefused ==
    Deficient =>
      /\ pc \in {"idle", "rejected"}
      /\ pc = "rejected" => error \in {"empty", "missingColumns", "emptyColumns", "noResults"}
      /\ csvData = <<>>
      /\ normalizedData = <<>>
      /\ rowLog = <<>>
      /\ ~results.present

\* a file under the capitalised header without the ctr column was refused
C20_Witness ==
    /\ pc = "rejected"
    /\ error = "missingColumns"
    /\ Len(selectedFile.fields) = 5
    /\ selectedFile.fields[1] = <<"Q","u","e","r","y">>

-----------------------------------------------------------------------------
(* Analysing again: handleAnalyze and handleCleanDuplicates *)

\* a variant in which the accumulator outlives the invocation: the new run
\* goes on with the buckets, counters, tables and lists of the previous one
ReanalyzeKeepingAcc ==
    /\ pc \in {"done", "aborted"}
    /\ Len(csvData) > 0
    /\ normalizedData' = csvData
    /\ index' = 0
    /\ rowLog' = <<>>
    /\ pc' = "running"
    /\ UNCHANGED <<configVars, csvData, results, error, inferContentTypeCache, exported,
                   selectedFile, other, arg, ret, acc>>

\* handleAnalyze (BrandTrafficAnalyzer.jsx lines 90-96) once a file was accepted
\* and no run is under way: analyzeData(null) analyses csvData again, up to the
\* start of processCsvResults; the stored result stays until the new one replaces it
Reanalyze ==
    /\ pc \in {"done", "aborted"}
    /\ Len(csvData) > 0
    /\ normalizedData' = csvData
    /\ index' = 0
    /\ acc' = InitAcc(csvData)
    /\ rowLog' = <<>>
    /\ pc' = "running"
    /\ UNCHANGED <<configVars, csvData, results, error, inferContentTypeCache, exported,
                   selectedFile, other, arg, ret>>

\* self.findIndex(r => r.query === row.query && r.page === row.page) for row i
\* (1-based): the first row with the same query and page
FindIndex(data, i) ==
    CHOOSE k \in 1..i :
       /\ StrictEq(data[k].query, data[i].query) /\ StrictEq(data[k].page, data[i].page)
       /\ \A m \in 1..(k - 1) :
            ~(StrictEq(data[m].query, data[i].query) /\ StrictEq(data[m].page, data[i].page))

\* a variant of the filter that keeps the last row of each (query, page) pair
CleanedDataKeepingLast(data) ==
    LET kept == SelectSeq([i \in 1..Len(data) |-> i],
                          LAMBDA i : \A m \in (i + 1)..Len(data) : FindIndex(data, m) # FindIndex(data, i))
    IN  [k \in 1..Len(kept) |-> data[kept[k]]]

\* BrandTrafficAnalyzer.jsx lines 100-102: the rows that are the first of their
\* (query, page) pair
CleanedData(data) ==
    LET kept == SelectSeq([i \in 1..Len(data) |-> i], LAMBDA i : FindIndex(data, i) = i)
    IN  [k \in 1..Len(kept) |-> data[kept[k]]]

\* handleCleanDuplicates (BrandTrafficAnalyzer.jsx lines 98-106) when the stored
\* result lists a duplicate: the result's data and duplicates are replaced and
\* analyzeData(cleanedData) starts, up to the start of processCsvResults
CleanDuplicates ==
    /\ pc \in {"done", "aborted"}
    /\ results.present
    /\ Len(results.value.duplicates) > 0
    /\ results' = [results EXCEPT !.value.data = CleanedData(results.value.data),
                                  !.value.duplicates = <<>>]
    /\ normalizedData' = CleanedData(results.value.data)
    /\ index' = 0
    /\ acc' = InitAcc(CleanedData(results.value.data))
    /\ rowLog' = <<>>
    /\ pc' = "running"
    /\ UNCHANGED <<configVars, csvData, error, inferContentTypeCache, exported,
                   selectedFile, other, arg, ret>>

\* the longest dataset of SpecReanalysis
MaxReanalysisRows == 3

ReanalysisRows ==
    {RowBrandBlog, RowPlainEn, RowInvalidPage, RowNoQuery, RowNoPage, RowNumericQuery}

SpecReanalysis ==
    InitWith(TermConfigs, FilesOf(ReanalysisRows, MaxReanalysisRows))
      /\ [][Upload \/ ProcessRow \/ Finish \/ Reanalyze \/ CleanDuplicates]_vars

\* the stored result is the outcome of analysing csvData, and a further run
\* over its data has processed its last row
RerunComplete ==
    /\ pc = "running"
    /\ index = Len(normalizedData)
    /\ results.present
    /\ results.value.data = csvData
    /\ normalizedData = results.value.data

\* C21: running the aggregation again on the data of its own output, with the
\* same configuration, reproduces the summary counts totalRows, brandedRows and
\* nonBrandedRows and the duplicates list; and the classification of a query
\* depends only on the configuration and the query: within a run, rows with the
\* same query fall into the same bucket.
C21_RerunReproducesCounts ==
    /\ RerunComplete =>
         LET again == MakeResult(normalizedData, FinishAcc(acc))
         IN  /\ again.summary.totalRows = results.value.summary.totalRows
             /\ again.summary.brandedRows = results.value.summary.brandedRows
             /\ again.summary.nonBrandedRows = results.value.summary.nonBrandedRows
             /\ again.duplicates = results.value.duplicates
    /\ \A i, j \in 1..Len(rowLog) :
         (/\ rowLog[i].outcome = "counted" /\ rowLog[j].outcome = "counted"
          /\ normalizedData[i].query = normalizedData[j].query)
            => rowLog[i].category = rowLog[j].category

\* a second run over three rows, one of them skipped and one a duplicate, is
\* about to return
C21_Witness ==
    /\ RerunComplete
    /\ Len(normalizedData) = 3
    /\ acc.summary.totalRows = 2
    /\ Len(acc.duplicates) = 1
    /\ rowLog[1].outcome = "skipped"

\* the rows of csvData (1-based) that no earlier row equals in query and page
FirstOfPair ==
    {i \in 1..Len(csvData) :
        \A j \in 1..(i - 1) : ~(/\ csvData[j].query = csvData[i].query
                                /\ csvData[j].page = csvData[i].page)}

\* the rows of csvData in S, in their order
RECURSIVE RowsIn(_, _)
RowsIn(S, i) ==
    IF i > Len(csvData) THEN <<>>
    ELSE (IF i \in S THEN <<csvData[i]>> ELSE <<>>) \o RowsIn(S, i + 1)

\* the rows of csvData that the aggregation counts, and those among them that
\* repeat an earlier row
CountedRows == {i \in 1..Len(csvData) : Truthy(csvData[i].query) /\ Truthy(csvData[i].page)}
RepeatedRows == CountedRows \ FirstOfPair

\* the stored result no longer holds the uploaded rows: duplicates were cleaned
Cleaned == results.present /\ results.value.data # csvData

-----------------------------------------------------------------------------
(* Two invocations of processCsvResults whose row steps interleave: the one   *)
(* of the upload (normalizedData, index, acc) and a further one (other).     *)
(* Both read and fill inferContentTypeCache, the module's only shared state. *)

\* a variant in which the further invocation takes over the accumulator of the
\* invocation under way instead of allocating its own
StartOtherSharingAcc ==
    /\ other.pc = "idle"
    /\ other' = [other EXCEPT !.pc = "running", !.index = 0,
                              !.acc = IF pc = "running" THEN acc ELSE InitAcc(other.data)]
    /\ UNCHANGED <<configVars, csvData, results, error, pc, normalizedData, index, acc,
                   rowLog, inferContentTypeCache, exported, selectedFile, arg, ret>>

\* the further invocation begins: utils.js lines 122-190
StartOther ==
    /\ other.pc = "idle"
    /\ other' = [other EXCEPT !.pc = "running", !.index = 0, !.acc = InitAcc(other.data)]
    /\ UNCHANGED <<configVars, csvData, results, error, pc, normalizedData, index, acc,
                   rowLog, inferContentTypeCache, exported, selectedFile, arg, ret>>

\* the state of the further invocation after a call r of the forEach callback
OtherAfter(r) ==
    [other EXCEPT !.acc = r.acc, !.pc = r.next,
                  !.index = IF r.next = "running" THEN @ + 1 ELSE @]

\* one iteration of the further invocation's forEach (utils.js lines 192-246)
OtherRow ==
    /\ other.pc = "running"
    /\ other.index < Len(other.data)
    /\ other' = OtherAfter(RowCallback(other.acc, inferContentTypeCache, other.data,
                                       other.index, Config))
    /\ inferContentTypeCache' =
          RowCallback(other.acc, inferContentTypeCache, other.data, other.index, Config).cache
    /\ UNCHANGED <<configVars, csvData, results, error, pc, normalizedData, index, acc,
                   rowLog, exported, selectedFile, arg, ret>>

\* the further invocation returns its result (utils.js lines 248-278)
OtherFinish ==
    /\ other.pc = "running"
    /\ other.index = Len(other.data)
    /\ other' = [other EXCEPT !.pc = "done",
                              !.result = MakeResult(other.data, FinishAcc(other.acc))]
    /\ UNCHANGED <<configVars, csvData, results, error, pc, normalizedData, index, acc,
                   rowLog, inferContentTypeCache, exported, selectedFile, arg, ret>>

\* the longest dataset of either invocation
MaxInterleavedRows == 2

InterleavedRows == {RowBrandBlog, RowPlainEn, RowNumericPage}

\* the state after construction with a further invocation waiting on its data
InitTwo(configs, files, datasets) ==
    /\ \E c \in configs :
         /\ brandTerms = c.brandTerms
         /\ useCustomRegex = c.useCustomRegex
         /\ customRegex = c.customRegex
         /\ caseSensitive = c.caseSensitive
         /\ detectLanguageCodes = c.detectLanguageCodes
    /\ selectedFile \in files
    /\ \E d \in datasets : other = [NoOther EXCEPT !.pc = "idle", !.data = d]
    /\ csvData = <<>>
    /\ results = NoResult
    /\ error = "none"
    /\ pc = "idle"
    /\ normalizedData = <<>>
    /\ index = 0
    /\ acc = InitAcc(<<>>)
    /\ rowLog = <<>>
    /\ inferContentTypeCache = EmptyCache
    /\ exported = NoExport
    /\ arg = <<>>
    /\ ret = NoCall

SpecInterleave ==
    /\ InitTwo({Cfg(<<"A","b">>, FALSE, <<>>, FALSE, TRUE)},
               {ParsedFile(ColumnOrder, LowerHeader(ColumnOrder), d) :
                   d \in SeqsUpTo(InterleavedRows, MaxInterleavedRows)},
               SeqsUpTo(InterleavedRows, MaxInterleavedRows) \ {<<>>})
    /\ [][Upload \/ ProcessRow \/ Finish \/ StartOther \/ OtherRow \/ OtherFinish]_vars

\* processCsvResults(data, config) run on its own from an empty cache: how it
\* ends and, when it returns, its result
RECURSIVE RunFrom(_, _, _, _, _)
RunStep(r, data, idx, cfg) ==
    IF r.next = "running" THEN RunFrom(r.acc, r.cache, data, idx + 1, cfg)
    ELSE [pc |-> r.next, result |-> <<>>]
RunFrom(a, cache, data, idx, cfg) ==
    IF idx = Len(data) THEN [pc |-> "done", result |-> MakeResult(data, FinishAcc(a))]
    ELSE RunStep(RowCallback(a, cache, data, idx, cfg), data, idx, cfg)
RunAlone(data) == RunFrom(InitAcc(data), EmptyCache, data, 0, Config)

\* C22: two invocations of the aggregation whose row steps interleave each
\* return what they return when run alone: buckets, counters, tables and lists
\* are allocated per invocation, and the only shared state, the content-type
\* cache, changes no result.
C22_InterleavedRunsAsAlone ==
    /\ pc \in {"done", "aborted"} =>
         /\ RunAlone(normalizedData).pc = pc
         /\ pc = "done" => results.value = RunAlone(normalizedData).result
    /\ other.pc \in {"done", "aborted"} =>
         /\ RunAlone(other.data).pc = other.pc
         /\ other.pc = "done" => other.result = RunAlone(other.data).result

\* both invocations returned, each over two rows, and the further one's first
\* row is on the page of the upload's second row, classified through the cache
C22_Witness ==
    /\ pc = "done"
    /\ other.pc = "done"
    /\ Len(normalizedData) = 2
    /\ Len(other.data) = 2
    /\ normalizedData[2].page = other.data[1].page
    /\ other.result.summary.totalRows = 2
    /\ results.value.summary.totalRows = 2

-----------------------------------------------------------------------------
(* The content-type cache over the lifetime of the module *)

\* the label the rules of utils.js lines 7-18 give a URL text, computed without
\* the cache
UncachedLabel(u) ==
    LET lower == ToLowerCase(u)
        hits  == {k \in 1..Len(contentTypes) :
                     \E m \in 1..Len(contentTypes[k].patterns) :
                        Includes(lower, contentTypes[k].patterns[m])}
    IN  IF hits = {} THEN "Other"
        ELSE contentTypes[CHOOSE k \in hits : \A j \in hits : k <= j].type

\* every cached label is the one the rules compute, and the label just returned
\* for a URL is the one the rules compute for it
LabelsAreOfTheRules ==
    /\ \A u \in DOMAIN inferContentTypeCache : inferContentTypeCache[u] = UncachedLabel(u)
    /\ (ret.done /\ Truthy(arg)) => ret.val = UncachedLabel(Text(arg))

\* a step keeps every cache entry with its label
EntriesKept ==
    \A u \in DOMAIN inferContentTypeCache :
       /\ u \in DOMAIN inferContentTypeCache'
       /\ inferContentTypeCache'[u] = inferContentTypeCache[u]

\* C23: once inferContentType has returned a label for a URL, every later call
\* with that exact URL returns the same label: every cached label and every
\* returned label is the one the uncached rules compute for that URL, and no
\* step removes a cache entry or gives it another label.
C23_CachedLabelsStable == [](LabelsAreOfTheRules) /\ [][EntriesKept]_vars

\* "/blog" was asked again while the cache holds it together with "/" and
\* "/Shop/help", asked in between
C23_Witness ==
    /\ ret.done
    /\ arg = Str(<<"/","b","l","o","g">>)
    /\ ret.val = "Blog"
    /\ DOMAIN inferContentTypeCache =
          { <<"/","b","l","o","g">>, <<"/">>, <<"/","S","h","o","p","/","h","e","l","p">> }

-----------------------------------------------------------------------------
(* The duplicate scan against a forward pass over a first-occurrence map *)

\* the longest dataset of SpecScan, and the longest tail after a full bucket
MaxScanRows == 3

\* the query "12" as text, on the page and with the metrics of RowNumericQuery
RowTextQuery == [RowNumericQuery EXCEPT !.query = Str(<<"1","2">>)]
\* a row of a full bucket whose page is the number 7, and the same with "7"
RowLateNumericPage == [SampleRow(MaxSamples + 1, FALSE) EXCEPT !.page = I(7)]
RowLateTextPage == [SampleRow(MaxSamples + 1, FALSE) EXCEPT !.page = Str(<<"7">>)]

ScanRows == {RowNumericQuery, RowTextQuery, RowNoQuery, RowNoPage, RowBrandBlog}

\* MaxSamples rows that fill the non-branded bucket, then a tail of rows whose
\* page no longer reaches inferContentType
LateFiles ==
    {ParsedFile(ColumnOrder, LowerHeader(ColumnOrder),
                [i \in 1..MaxSamples |-> SampleRow(i, FALSE)] \o tail) :
        tail \in SeqsUpTo({RowLateNumericPage, RowLateTextPage}, MaxScanRows) \ {<<>>}}

\* term mode, where a numeric query throws, and a case-sensitive pattern mode
\* whose pattern does not compile, where isBranded returns false for it
SpecScan ==
    /\ InitWith({Cfg(<<"A","b">>, FALSE, <<>>, FALSE, TRUE),
                 Cfg(<<"A","b">>, TRUE, <<"(">>, TRUE, FALSE)},
                {ParsedFile(ColumnOrder, LowerHeader(ColumnOrder), d) :
                    d \in SeqsUpTo(ScanRows, MaxScanRows)} \cup LateFiles)
    /\ [][Upload \/ ProcessRow \/ Finish]_vars

\* the entries of a first-occurrence map (query, page, 0-based index) that have
\* the query and the page of a row
MapHits(first, row) ==
    {k \in 1..Len(first) : /\ StrictEq(first[k].query, row.query)
                           /\ StrictEq(first[k].page, row.page)}

\* one step of the forward pass: a skipped row leaves map and list alone, a row
\* whose pair is in the map is listed with the index the map holds, and any
\* other row enters the map under its own index
ForwardStep(prev, row, i) ==
    IF ~Truthy(row.query) \/ ~Truthy(row.page) THEN prev
    ELSE IF MapHits(prev.first, row) = {}
    THEN [first |-> Append(prev.first, [query |-> row.query, page |-> row.page, index |-> i]),
          dups |-> prev.dups]
    ELSE [first |-> prev.first,
          dups |-> Append(prev.dups,
                          [row |-> row,
                           originalIndex |->
                              prev.first[CHOOSE k \in MapHits(prev.first, row) : TRUE].index])]

\* the forward pass over the first n rows of data
RECURSIVE ForwardPass(_, _)
ForwardPass(data, n) ==
    IF n = 0 THEN [first |-> <<>>, dups |-> <<>>]
    ELSE ForwardStep(ForwardPass(data, n - 1), data[n], n - 1)

\* C24: the scan back over the earlier rows gives the duplicates list that one
\* forward pass with a map from (query, page) to the index of the first
\* occurrence gives: the same entries in the same order with the same
\* originalIndex, also when a query or a page is a number or a row is skipped.
C24_ScanBackAsForwardMap ==
    pc \in {"running", "done"} =>
      /\ acc.duplicates = ForwardPass(normalizedData, index).dups
      /\ (pc = "done" => results.value.duplicates = ForwardPass(normalizedData, index).dups)

\* the number 12, the text "12" and the number 12 again as queries on one page:
\* one entry, the third row referencing the first
C24_Witness ==
    /\ pc = "done"
    /\ Len(normalizedData) = 3
    /\ normalizedData[1].query = I(12)
    /\ normalizedData[2].query = Str(<<"1","2">>)
    /\ normalizedData[3].query = I(12)
    /\ Len(results.value.duplicates) = 1
    /\ results.value.duplicates[1].originalIndex = 0

\* a numeric page after a full bucket, repeated after the same page as text:
\* the rows of the full bucket repeat the first row, the text page is new, and
\* the last row references the first numeric page
C24_LateWitness ==
    /\ pc = "done"
    /\ Len(normalizedData) = MaxSamples + 3
    /\ normalizedData[MaxSamples + 1].page = I(7)
    /\ normalizedData[MaxSamples + 2].page = Str(<<"7">>)
    /\ normalizedData[MaxSamples + 3].page = I(7)
    /\ Len(results.value.duplicates) = MaxSamples
    /\ results.value.duplicates[MaxSamples].originalIndex = MaxSamples

-----------------------------------------------------------------------------
(* The ctr of a row as the documentation describes it *)

\* README.md lines 58-65 ("can be percentage or decimal"): a text with a trailing
\* '%' is that many hundredths, any other value is the number it denotes, and
\* a missing or non-numeric value is 0
DescribedCtr(cell) ==
    IF ~Truthy(cell) THEN Zero
    ELSE IF ToStringValue(cell) # <<>> /\ ToStringValue(cell)[Len(ToStringValue(cell))] = "%"
    THEN DivideBy100(StringToNumber(SubSeq(ToStringValue(cell), 1,
                                           Len(ToStringValue(cell)) - 1)))
    ELSE OrZero(ToNumber(cell))

\* the m-th sample of a category holds the described ctr of the row it is from
SampleCtrAsDescribed(category, m) ==
    acc[category].samples[m].ctr =
       DescribedCtr(normalizedData[Nth(ClassifiedInto(category, index), m)].ctr)

\* C25: a ctr with a trailing '%' is stripped of it and divided by 100 ("10%"
\* becomes 0.10), a ctr given as a decimal fraction is retained as it is (0.10
\* stays 0.10), a missing or non-numeric ctr becomes 0, and the retained
\* sample's ctr is this coerced value.
C25_CtrCoercedAsDescribed ==
    pc \in {"running", "done"} =>
      \A category \in {"branded", "nonBranded"} :
         \A m \in 1..Len(acc[category].samples) : SampleCtrAsDescribed(category, m)

-----------------------------------------------------------------------------
(* The path and language tables during the pass *)

\* the longest dataset of mixed rows of SpecTables, and the longest dataset
\* with more than MaxUrlExamples pages under one path
MaxTableRows == 3
MaxExampleRows == 12

\* row i of a long dataset: page s/b/<i>, branded when i is odd
TableRow(i) ==
    [SampleRow(i, i % 2 = 1) EXCEPT !.page = Str(<<"s","/","b","/">> \o NatToString(i))]

TableRows == {RowBrandBlog, RowPlainEn, RowInvalidPage, RowNoQuery}

\* more than MaxUrlExamples rows under /b, with at most one row of another path
\* among them
ExampleFiles ==
    {ParsedFile(ColumnOrder, LowerHeader(ColumnOrder),
                [i \in 1..k |-> IF i = other1 THEN RowPlainEn ELSE TableRow(i)]) :
        k \in (MaxUrlExamples + 1)..MaxExampleRows, other1 \in 0..MaxExampleRows}

SpecTables ==
    /\ InitWith({Cfg(<<"A","b">>, FALSE, <<>>, FALSE, TRUE),
                 Cfg(<<"A","b">>, FALSE, <<>>, FALSE, FALSE)},
                {ParsedFile(ColumnOrder, LowerHeader(ColumnOrder), d) :
                    d \in SeqsUpTo(TableRows, MaxTableRows)} \cup ExampleFiles)
    /\ [][Upload \/ ProcessRow \/ Finish]_vars

\* the rows (1-based) counted so far under a primary path, and under a language
RowsUnderPath(p) ==
    {j \in 1..index : rowLog[j].category # "none" /\ LocationOf(j).primaryPath = p}
RowsUnderLanguage(code) ==
    {j \in 1..index : rowLog[j].category # "none" /\ LocationOf(j).lang = code}

\* the pages of the first n rows of a set of rows, in input order
RECURSIVE PagesOf(_, _)
PagesOf(rows, n) ==
    IF n = 0 \/ rows = {} THEN <<>>
    ELSE <<normalizedData[CHOOSE i \in rows : \A j \in rows : i <= j].page>>
           \o PagesOf(rows \ {CHOOSE i \in rows : \A j \in rows : i <= j}, n - 1)

RECURSIVE SumOfTotals(_, _)
SumOfTotals(entries, k) == IF k = 0 THEN 0 ELSE entries[k].total + SumOfTotals(entries, k - 1)

\* an entry counts the rows of a set, by category
CountsRows(entry, rows) ==
    /\ entry.total = Cardinality(rows)
    /\ entry.branded = Cardinality({j \in rows : rowLog[j].category = "branded"})
    /\ entry.nonBranded = Cardinality({j \in rows : rowLog[j].category = "nonBranded"})
    /\ entry.branded + entry.nonBranded = entry.total
    /\ entry.sortableTotal = entry.total

\* one entry per key
KeyedOnce(entries) ==
    \A k, m \in 1..Len(entries) : entries[k].name = entries[m].name => k = m

PathTablesAgree ==
    /\ KeyedOnce(acc.pathData) /\ KeyedOnce(acc.pathUrlCounts) /\ KeyedOnce(acc.pathUrlExamples)
    /\ Len(acc.pathUrlCounts) = Len(acc.pathData)
    /\ Len(acc.pathUrlExamples) = Len(acc.pathData)
    /\ \A k \in 1..Len(acc.pathData) :
         /\ CountsRows(acc.pathData[k], RowsUnderPath(acc.pathData[k].name))
         /\ KeyIndex(acc.pathUrlCounts, acc.pathData[k].name) # 0
         /\ acc.pathUrlCounts[KeyIndex(acc.pathUrlCounts, acc.pathData[k].name)].count
               = acc.pathData[k].total
         /\ KeyIndex(acc.pathUrlExamples, acc.pathData[k].name) # 0
         /\ acc.pathUrlExamples[KeyIndex(acc.pathUrlExamples, acc.pathData[k].name)].urls
               = PagesOf(RowsUnderPath(acc.pathData[k].name),
                         Min(MaxUrlExamples, acc.pathData[k].total))
    /\ SumOfTotals(acc.pathData, Len(acc.pathData)) = acc.summary.totalRows

LanguageTableAgrees ==
    IF detectLanguageCodes
    THEN /\ KeyedOnce(acc.languageData)
         /\ \A k \in 1..Len(acc.languageData) :
              CountsRows(acc.languageData[k], RowsUnderLanguage(acc.languageData[k].name))
         /\ SumOfTotals(acc.languageData, Len(acc.languageData)) = acc.summary.totalRows
    ELSE acc.languageData = <<>>

\* C26: after any prefix of the rows, every path entry has branded + nonBranded
\* = total = sortableTotal = pathUrlCounts of the path, the totals add up to
\* summary.totalRows, and pathUrlExamples of the path holds the pages of its
\* first min(10, total) rows in first-seen order; with language detection the
\* same count identities hold for languageData, and without it languageData
\* stays empty.
C26_TablesCountTheRows == pc = "running" => PathTablesAgree /\ LanguageTableAgrees

\* twelve rows were processed, eleven of them under /b and one, in between,
\* under another path
C26_Witness ==
    /\ pc = "running"
    /\ detectLanguageCodes
    /\ index = MaxUrlExamples + 2
    /\ Len(acc.pathData) = 2
    /\ acc.pathData[1].total = MaxUrlExamples + 1
    /\ Len(acc.pathUrlExamples[1].urls) = MaxUrlExamples
    /\ Len(acc.languageData) = 2

-----------------------------------------------------------------------------
(* The language a sample records *)

\* the m-th sample of a category records the language its row was counted
\* under, or null without language detection
SampleLanguageAsCounted(category, m) ==
    acc[category].samples[m].urls[1].language =
       IF detectLanguageCodes
       THEN Str(LocationOf(Nth(ClassifiedInto(category, index), m)).lang)
       ELSE Null

\* C27: the language recorded in a retained sample (urls[0].language, the
\* Language column of the query export) is the one the row was counted under:
\* with language detection the lang code detected from the row's page, 'unknown'
\* if none was detected, and null without detection.
C27_SampleLanguageIsDetected ==
    pc \in {"running", "done"} =>
      \A category \in {"branded", "nonBranded"} :
         \A m \in 1..Len(acc[category].samples) : SampleLanguageAsCounted(category, m)

-----------------------------------------------------------------------------
(* Rendering: VisualizationComponent, components.jsx.  The component is given *)
(* {...results, pathData: results.pathData.filter(...)}                      *)
(* (BrandTrafficAnalyzer.jsx lines 244-248): branded, nonBranded and         *)
(* languageData are the arrays of the stored result, pathData is a copy.     *)

\* the place Array.prototype.sort, which is stable and sorts in place, gives
\* element i for a comparator that orders by key, largest first
PlaceDescending(keys, i) ==
    1 + Cardinality({j \in 1..Len(keys) :
                        \/ RatLess(keys[i], keys[j])
                        \/ (keys[j] = keys[i] /\ j < i)})

SortDescending(s, keys) ==
    [p \in 1..Len(s) |-> s[CHOOSE i \in 1..Len(s) : PlaceDescending(keys, i) = p]]

\* samples.sort((a, b) => (b.clicks || 0) - (a.clicks || 0)), lines 214 and 218
SortByClicks(samples) ==
    SortDescending(samples, [k \in 1..Len(samples) |-> samples[k].clicks])

\* languageData.sort((a, b) => (b.sortableTotal || 0) - (a.sortableTotal || 0)),
\* lines 1270 and 1274
SortBySortableTotal(languageData) ==
    SortDescending(languageData,
                   [k \in 1..Len(languageData) |-> Int2Rat(languageData[k].sortableTotal)])

\* a render of any tab but the insights tab: the useMemo callbacks of lines
\* 213-219 run, as the results prop is a new object on every render
Render ==
    /\ Idle
    /\ results.present
    /\ results' = [results EXCEPT !.value.branded.samples = SortByClicks(@),
                                  !.value.nonBranded.samples = SortByClicks(@)]
    /\ UNCHANGED <<configVars, csvData, error, pc, normalizedData, index, acc, rowLog,
                   inferContentTypeCache, exported, selectedFile, other, arg, ret>>

\* a render of the insights tab: the same callbacks, then generateInsights
\* (lines 1199-1295)
RenderInsights ==
    /\ Idle
    /\ results.present
    /\ results' = [results EXCEPT !.value.branded.samples = SortByClicks(@),
                                  !.value.nonBranded.samples = SortByClicks(@),
                                  !.value.languageData = SortBySortableTotal(@)]
    /\ UNCHANGED <<configVars, csvData, error, pc, normalizedData, index, acc, rowLog,
                   inferContentTypeCache, exported, selectedFile, other, arg, ret>>

\* the longest dataset of SpecRender
MaxRenderRows == 3

RenderRows == {RowBrandBlog, RowPlainEn, RowFormula}

\* an upload session whose results are rendered and exported
SpecRender ==
    /\ InitWith(TermConfigs, FilesOf(RenderRows, MaxRenderRows))
    /\ [][Upload \/ ProcessRow \/ Finish \/ Render \/ RenderInsights \/ ExportQuery]_vars

\* C28: rendering the results, any number of times and in any tab order, leaves
\* the stored result as aggregate returned it: branded.samples and
\* nonBranded.samples keep their first-seen order, languageData its order, and a
\* later query export writes the rows in aggregation order.
C28_RenderLeavesResultUnchanged ==
    (pc = "done" /\ results.present) =>
      /\ results.value.branded.samples = acc.branded.samples
      /\ results.value.nonBranded.samples = acc.nonBranded.samples
      /\ results.value.languageData = MakeResult(normalizedData, acc).languageData
      /\ exported.kind = "query" =>
           \E type \in {"all", "branded", "nonBranded"} :
              exported.rows = exportQueryData(MakeResult(normalizedData, acc), type)

-----------------------------------------------------------------------------
(* Outliers in small datasets and among missing values *)

\* the outliers reported for a field
OutlierList(field) == ret.val.outliers[field].list

\* C30: no row is flagged as a clicks or impressions outlier in a dataset of 10
\* or fewer rows, whatever the values, so that an outlier is reported only for
\* datasets of at least 11 rows; and a row whose clicks or impressions value is
\* missing is never flagged.
C30_NoOutlierInSmallOrMissing ==
    ret.done =>
      \A field \in {"clicks", "impressions"} :
         /\ Len(arg) <= 10 => OutlierList(field) = <<>>
         /\ OutlierList(field) # <<>> => Len(arg) >= 11
         /\ \A k \in 1..Len(OutlierList(field)) : ~IsMissing(OutlierList(field)[k].value)
=============================================================================
